---------------------------- MODULE Spec2Model ----------------------------
(***************************************************************************)
(* Model of the schema parser of rails-schema                              *)
(* (src/services/schemaParser.ts).                                         *)
(*                                                                         *)
(* Text is modelled at the level of tokens: a string of the program is a   *)
(* sequence of tokens, each token a TLA+ string.  NL is the newline        *)
(* character and WS a run of blanks at the edge of a line; between two     *)
(* other adjacent tokens the text has the blank (or not) that the source   *)
(* form of the fragment shows.  Regular expressions of the program are     *)
(* operators over token sequences that return NoMatch or the tuple of the  *)
(* captured groups.  Character-level operations on identifiers (suffix     *)
(* tests, concatenation, case mapping) are tables over the vocabulary.     *)
(***************************************************************************)
EXTENDS Integers, Sequences, FiniteSets, TLC

VARIABLES
    content,        \* parseSchema's argument `content`
    filename,       \* parseSchema's argument `filename`
    pc,             \* position of the call: start, scan, done, raised; idle
                    \* in the App between two calls
    dialect,        \* scanner selected by parseSchema
    units,          \* the lines (or SQL statements) the scanner iterates over
    idx,            \* number of units already scanned
    tables,         \* the scanner's local `tables`
    relationships,  \* the scanner's local `relationships`
    currentTable,   \* the scanner's cursor: index into tables, 0 for null
    result,         \* the value returned (a sequence of length 0 or 1)
    calls,          \* number of calls of parseSchema that have returned
    memo,           \* input and result of the first call that returned
    schemaData,     \* App state `schemaData` (a sequence of length 0 or 1)
    selectedTable,  \* App state `selectedTable` (a sequence of length 0 or 1)
    isFocused,      \* App state `isFocused`
    analysisStatus, \* App state `analysisStatus`
    analysisReport, \* App state `analysisReport` (a sequence of length 0 or 1)
    pending,        \* the calls of analyzeSchema in flight: the schema content
                    \* each was handed, in the order of the calls
    unhandled,      \* a promise of handleAnalyze was rejected
    response,       \* what the Gemini call that settled last came to (a
                    \* sequence of length 0 or 1)
    layout,         \* App state `layout`
    searchTerm,     \* App state `searchTerm`
    reading,        \* the FileReader of processFile at work: the content of
                    \* its file (a sequence of length 0 or 1)
    stored,         \* localStorage item schemaviz_content (a sequence of
                    \* length 0 or 1)
    nodesRef,       \* SchemaGraph's nodesRef.current
    linksRef,       \* SchemaGraph's linksRef.current
    passes,         \* passes of the TREE level loop run so far (its `i`)
    graphState      \* the graph: unmounted, drawn, or laid out as a tree

\* the state of a call of parseSchema
parserVars ==
    <<content, filename, pc, dialect, units, idx, tables, relationships,
      currentTable, result, calls, memo>>

\* the state of the App component
analysisVars ==
    <<analysisStatus, analysisReport, pending, unhandled, response>>

\* the graph controls, the file being read and the saved schema
controlVars == <<layout, searchTerm, reading, stored>>

\* the state of the SchemaGraph component
graphVars == <<nodesRef, linksRef, passes, graphState>>

appVars ==
    <<schemaData, selectedTable, isFocused, analysisVars, controlVars,
      graphVars>>

vars == <<parserVars, appVars>>

-----------------------------------------------------------------------------
(* Bounds of the model *)

MaxFrags == 3
MaxCalls == 3

-----------------------------------------------------------------------------
(* Tokens *)

NL == "\n"
WS == "  "
DQ == "\""
SQ == "'"

\* optional values: undefined / null is the empty sequence
None == <<>>
Some(x) == <<x>>

\* a failed String.prototype.match returns null
NoMatch == <<>>

\* identifiers of the vocabulary: the tokens that match \w+
Words ==
    {"users", "posts", "user", "post", "name", "user_id", "post_id", "id",
     "string", "bigint", "false", "do", "end", "create_table",
     "add_foreign_key", "legacy", "create_table_log",
     "CREATE", "TABLE", "create", "table", "INT", "TEXT", "VARCHAR", "255",
     "PRIMARY", "KEY", "FOREIGN", "REFERENCES", "ALTER", "ADD", "CONSTRAINT",
     "IF", "NOT", "EXISTS", "fk_posts_users", "primary_tag", "NULL",
     "model", "generator", "client", "User", "Post", "Int", "String",
     "author", "posts_list", "class", "self", "title", "from", "import",
     "models", "CharField", "ForeignKey", "Meta", "on_delete",
     "authors", "authores", "author_id", "books", "comments", "body",
     "text", "Account", "ManyToManyField"}

IsWord(tok) == tok \in Words

\* String.prototype.toUpperCase on a token
ToUpperCase(tok) ==
    CASE tok = "create" -> "CREATE"
      [] tok = "table" -> "TABLE"
      [] tok = "primary_tag" -> "PRIMARY_TAG"
      [] tok = "create_table" -> "CREATE_TABLE"
      [] tok = "create_table_log" -> "CREATE_TABLE_LOG"
      [] OTHER -> tok

\* String.prototype.toLowerCase on a filename segment
ToLowerCase(tok) ==
    CASE tok = "RB" -> "rb"
      [] tok = "SQL" -> "sql"
      [] OTHER -> tok

IsSpace(tok) == tok \in {NL, WS}

RECURSIVE TrimLeft(_)
TrimLeft(s) ==
    IF s # <<>> /\ IsSpace(Head(s)) THEN TrimLeft(Tail(s)) ELSE s

RECURSIVE TrimRight(_)
TrimRight(s) ==
    IF s # <<>> /\ IsSpace(s[Len(s)])
    THEN TrimRight(SubSeq(s, 1, Len(s) - 1))
    ELSE s

\* String.prototype.trim
Trim(s) == TrimRight(TrimLeft(s))

\* position of the k-th separator of s; 0 before the first, Len(s) + 1 after the last
SepAt(s, sep, k) ==
    LET at == {i \in 1..Len(s) : s[i] = sep}
    IN IF k = 0 THEN 0
       ELSE IF k > Cardinality(at) THEN Len(s) + 1
       ELSE CHOOSE i \in at : Cardinality({j \in at : j < i}) = k - 1

\* String.prototype.split(sep) for a one-token separator: "" splits into [""]
Split(s, sep) ==
    LET n == Cardinality({i \in 1..Len(s) : s[i] = sep})
    IN [k \in 1..(n + 1) |->
           SubSeq(s, SepAt(s, sep, k - 1) + 1, SepAt(s, sep, k) - 1)]

\* position of the first occurrence of the token sequence pat in s, 0 if none
IndexOfSeq(s, pat) ==
    LET hits == {i \in 1..(Len(s) - Len(pat) + 1) :
                    SubSeq(s, i, i + Len(pat) - 1) = pat}
    IN IF hits = {} THEN 0 ELSE CHOOSE i \in hits : \A j \in hits : i <= j

\* String.prototype.includes for a marker that is a sequence of whole tokens
IncludesSeq(s, pat) == IndexOfSeq(s, pat) # 0

\* <<token, text>>: the token contains the text without being equal to it
Contained ==
    {<<"create_table_log", "create_table">>,
     <<"ActiveRecord::Schema[7.0].define", "ActiveRecord::Schema">>}

\* String.prototype.includes for a text that lies within one token
Includes(s, text) ==
    \E n \in 1..Len(s) : s[n] = text \/ <<s[n], text>> \in Contained


\* a condition that tests the match for undefined, which null is not
TruthyNotUndefined(m) == TRUE

\* the value of a JavaScript condition on a match result or object reference
Truthy(m) == m # NoMatch


Min(S) == CHOOSE i \in S : \A j \in S : i <= j
Max(S) == CHOOSE i \in S : \A j \in S : i >= j

\* the scanner's locals as one value; threw records an uncaught TypeError
Locals(tb, rel, cur) ==
    [tables |-> tb, relationships |-> rel, currentTable |-> cur, threw |-> FALSE]

Throw(st) == [st EXCEPT !.threw = TRUE]

\* currentTable.columns.push(col) through the cursor
PushColumn(st, col) ==
    IF st.currentTable = 0 THEN Throw(st)
    ELSE [st EXCEPT !.tables[st.currentTable].columns = Append(@, col)]

\* an opening that points the cursor back at the table already declared under
\* the id, when there is one
OpenTableReopening(st, id) ==
    LET same == {k \in 1..Len(st.tables) : st.tables[k].id = id}
    IN IF same = {}
       THEN [st EXCEPT !.tables = Append(@, [id |-> id, columns |-> <<>>]),
                       !.currentTable = Len(st.tables) + 1]
       ELSE [st EXCEPT !.currentTable = Min(same)]

\* tables.push(t) followed by pointing the cursor at t
OpenTable(st, id) ==
    [st EXCEPT !.tables = Append(@, [id |-> id, columns |-> <<>>]),
               !.currentTable = Len(st.tables) + 1]

-----------------------------------------------------------------------------
(* Character-level operations on identifiers, as tables over the vocabulary *)

\* <<a, b, a + b>>
Suffixed ==
    {<<"user", "_id", "user_id">>, <<"post", "_id", "post_id">>,
     <<"user", "s", "users">>, <<"user", "es", "useres">>,
     <<"post", "s", "posts">>, <<"post", "es", "postes">>,
     <<"author", "_id", "author_id">>, <<"author", "s", "authors">>,
     <<"author", "es", "authores">>}

\* String.prototype.endsWith
EndsWith(s, suf) == \E e \in Suffixed : e[2] = suf /\ e[3] = s

\* s.replace(/suf$/, '') for an s that ends with suf
StripSuffix(s, suf) == (CHOOSE e \in Suffixed : e[2] = suf /\ e[3] = s)[1]

\* string concatenation a + suf
Concat(a, suf) == (CHOOSE e \in Suffixed : e[1] = a /\ e[2] = suf)[3]

-----------------------------------------------------------------------------
(* parseRails *)

\* /create_table\s+"(\w+)"/
createTableRegexAt(l, i) ==
    /\ i + 3 <= Len(l)
    /\ l[i] = "create_table"
    /\ l[i + 1] = DQ
    /\ IsWord(l[i + 2])
    /\ l[i + 3] = DQ

RailsCreateTableMatch(l) ==
    LET hits == {i \in 1..Len(l) : createTableRegexAt(l, i)}
    IN IF hits = {} THEN NoMatch ELSE <<l[Min(hits) + 2]>>

\* /t\.(\w+)\s+"(\w+)"(.*)/
columnRegexAt(l, i) ==
    /\ i + 4 <= Len(l)
    /\ l[i] = "t."
    /\ IsWord(l[i + 1])
    /\ l[i + 2] = DQ
    /\ IsWord(l[i + 3])
    /\ l[i + 4] = DQ

RailsColumnMatch(l) ==
    LET hits == {i \in 1..Len(l) : columnRegexAt(l, i)}
    IN IF hits = {} THEN NoMatch
       ELSE LET i == Min(hits)
            IN <<l[i + 1], l[i + 3], SubSeq(l, i + 5, Len(l))>>

\* /add_foreign_key\s+"(\w+)",\s+"(\w+)"/
foreignKeyRegexAt(l, i) ==
    /\ i + 7 <= Len(l)
    /\ l[i] = "add_foreign_key"
    /\ l[i + 1] = DQ
    /\ IsWord(l[i + 2])
    /\ l[i + 3] = DQ
    /\ l[i + 4] = ","
    /\ l[i + 5] = DQ
    /\ IsWord(l[i + 6])
    /\ l[i + 7] = DQ

RailsForeignKeyMatch(l) ==
    LET hits == {i \in 1..Len(l) : foreignKeyRegexAt(l, i)}
    IN IF hits = {} THEN NoMatch
       ELSE LET i == Min(hits) IN <<l[i + 2], l[i + 6]>>

\* details ? details.trim() : undefined   (the empty string is falsy)
RailsDetails(details) == IF details = <<>> THEN None ELSE Some(Trim(details))


\* the foreign key statement read without the test of the match
RailsForeignKeyUnguarded(st, trimmedLine) ==
    LET fkMatch == RailsForeignKeyMatch(trimmedLine)
    IN IF fkMatch = NoMatch THEN Throw(st)
       ELSE [st EXCEPT !.relationships =
                Append(@, [source |-> fkMatch[1], target |-> fkMatch[2],
                           column |-> None])]

\* a foreign key statement that is read only while no table is open
RailsForeignKeyTopLevel(st, trimmedLine) ==
    LET fkMatch == RailsForeignKeyMatch(trimmedLine)
    IN IF st.currentTable = 0 /\ fkMatch # NoMatch
       THEN [st EXCEPT !.relationships =
                Append(@, [source |-> fkMatch[1], target |-> fkMatch[2],
                           column |-> None])]
       ELSE st

\* the explicit foreign key statement of a line (lines 42-45)
RailsForeignKey(st, trimmedLine) ==
    LET fkMatch == RailsForeignKeyMatch(trimmedLine)
    IN IF Truthy(fkMatch)
       THEN IF fkMatch = NoMatch THEN Throw(st)
            ELSE [st EXCEPT !.relationships =
                     Append(@, [source |-> fkMatch[1], target |-> fkMatch[2],
                                column |-> None])]
       ELSE st

\* a column declaration that goes to the last table of the list, open or not
RailsColumnLastTable(st, trimmedLine) ==
    LET colMatch == RailsColumnMatch(trimmedLine)
    IN IF st.tables # <<>> /\ colMatch # NoMatch
       THEN [st EXCEPT !.tables[Len(st.tables)].columns =
                Append(@, [name |-> colMatch[2], type |-> colMatch[1],
                           details |-> RailsDetails(colMatch[3])])]
       ELSE st

\* the column declaration of a line (lines 31-41)
RailsColumn(st, trimmedLine) ==
    LET colMatch == RailsColumnMatch(trimmedLine)
    IN IF st.currentTable # 0 /\ Truthy(colMatch)
       THEN IF colMatch = NoMatch THEN Throw(st)
            ELSE PushColumn(st, [name |-> colMatch[2], type |-> colMatch[1],
                                 details |-> RailsDetails(colMatch[3])])
       ELSE st

\* the body of lines.forEach (lines 19-46)
RailsLine(st, line) ==
    LET trimmedLine == Trim(line)
        tableMatch == RailsCreateTableMatch(trimmedLine)
    IN IF Truthy(tableMatch)
       THEN IF tableMatch = NoMatch THEN Throw(st)
            ELSE OpenTable(st, tableMatch[1])
       ELSE IF trimmedLine = <<"end">> /\ st.currentTable # 0
       THEN [st EXCEPT !.currentTable = 0]
       ELSE LET st1 == RailsColumn(st, trimmedLine)
            IN IF st1.threw THEN st1 ELSE RailsForeignKey(st1, trimmedLine)

\* tables.find(t => targets.includes(t.id)): index of the first such table, 0 if none
FindTable(tb, targets) ==
    LET hits == {k \in 1..Len(tb) : tb[k].id \in targets}
    IN IF hits = {} THEN 0 ELSE Min(hits)

\* a duplicate test that compares both ends with the source table
RelationshipExistsSourceTwice(rel, s, t) ==
    \E k \in 1..Len(rel) : rel[k].source = s /\ rel[k].target = s

\* a duplicate test that compares the source only
RelationshipExistsSourceOnly(rel, s, t) ==
    \E k \in 1..Len(rel) : rel[k].source = s

\* relationships.some(r => r.source === s && r.target === t)
RelationshipExists(rel, s, t) ==
    \E k \in 1..Len(rel) : rel[k].source = s /\ rel[k].target = t


\* an inference whose duplicate test compares the whole triple
RailsInferColumnTriple(tb, rel, sourceId, col) ==
    IF EndsWith(col.name, "_id")
    THEN LET singularName == StripSuffix(col.name, "_id")
             targets == {Concat(singularName, "s"), Concat(singularName, "es"),
                         singularName}
             m == FindTable(tb, targets)
             edge == IF m = 0 THEN None
                     ELSE Some([source |-> sourceId, target |-> tb[m].id,
                                column |-> Some(col.name)])
         IN IF m # 0 /\ ~(\E k \in 1..Len(rel) : rel[k] = edge[1])
            THEN Append(rel, edge[1])
            ELSE rel
    ELSE rel

\* an inference that puts the inferred edge in front of the list
RailsInferColumnUnshift(tb, rel, sourceId, col) ==
    IF EndsWith(col.name, "_id")
    THEN LET singularName == StripSuffix(col.name, "_id")
             targets == {Concat(singularName, "s"), Concat(singularName, "es"),
                         singularName}
             m == FindTable(tb, targets)
         IN IF m # 0 /\ ~RelationshipExists(rel, sourceId, tb[m].id)
            THEN <<[source |-> sourceId, target |-> tb[m].id,
                    column |-> Some(col.name)]>> \o rel
            ELSE rel
    ELSE rel

\* the body of sourceTable.columns.forEach (lines 50-63)
RailsInferColumn(tb, rel, sourceId, col) ==
    IF EndsWith(col.name, "_id")
    THEN LET singularName == StripSuffix(col.name, "_id")
             targets == {Concat(singularName, "s"), Concat(singularName, "es"),
                         singularName}
             m == FindTable(tb, targets)
         IN IF m # 0 /\ ~RelationshipExists(rel, sourceId, tb[m].id)
            THEN Append(rel, [source |-> sourceId, target |-> tb[m].id,
                              column |-> Some(col.name)])
            ELSE rel
    ELSE rel

RECURSIVE RailsInferColumns(_, _, _, _, _)
RailsInferColumns(tb, rel, sourceId, cols, c) ==
    IF c > Len(cols) THEN rel
    ELSE RailsInferColumns(tb, RailsInferColumn(tb, rel, sourceId, cols[c]),
                           sourceId, cols, c + 1)

\* tables.forEach(sourceTable => ...) (lines 49-64), from table k on
RECURSIVE RailsInfer(_, _, _)
RailsInfer(tb, rel, k) ==
    IF k > Len(tb) THEN rel
    ELSE RailsInfer(tb, RailsInferColumns(tb, rel, tb[k].id, tb[k].columns, 1),
                    k + 1)

\* a return that keeps the relationships between declared tables only
RailsReturnDeclared(c, tb, rel) ==
    LET ids == {tb[k].id : k \in 1..Len(tb)}
        declared(r) == r.source \in ids /\ r.target \in ids
    IN [tables |-> tb, relationships |-> SelectSeq(rel, declared),
        rawContent |-> c]

\* return { tables, relationships, rawContent: content } (line 66)
RailsReturn(c, tb, rel) ==
    [tables |-> tb, relationships |-> rel, rawContent |-> c]

-----------------------------------------------------------------------------
(* parseSQL *)

\* content.replace(/--.*$/gm, ''): a line comment runs up to the end of its
\* line; one unfolding per comment
RECURSIVE StripLineComments(_, _)
StripLineComments(s, inComment) ==
    LET open == IF inComment THEN 1 ELSE IndexOfSeq(s, <<"--">>)
        ends == {e \in open..Len(s) : s[e] = NL}
        close == IF ends = {} THEN Len(s) + 1 ELSE Min(ends)
    IN IF open = 0 \/ s = <<>> THEN s
       ELSE SubSeq(s, 1, open - 1)
                \o StripLineComments(SubSeq(s, close, Len(s)), FALSE)

\* .replace(/\/\*[\s\S]*?\*\//g, ''): an unterminated block comment is kept;
\* one unfolding per comment
RECURSIVE StripBlockComments(_)
StripBlockComments(s) ==
    LET open == IndexOfSeq(s, <<"/*">>)
        close == IF open = 0 THEN 0
                 ELSE IndexOfSeq(SubSeq(s, open + 1, Len(s)), <<"*/">>)
    IN IF open = 0 \/ close = 0 THEN s
       ELSE SubSeq(s, 1, open - 1)
                \o StripBlockComments(SubSeq(s, open + close + 1, Len(s)))

\* cleanContent (lines 75-77)
CleanContent(c) == StripBlockComments(StripLineComments(c, FALSE))

\* \s+ and \s*: the position of the first token at or after i that is not blank
RECURSIVE SkipSpace(_, _)
SkipSpace(l, i) ==
    IF i <= Len(l) /\ IsSpace(l[i]) THEN SkipSpace(l, i + 1) ELSE i

\* token i of l under the i flag, "" past the end
UpperAt(l, i) == IF i >= 1 /\ i <= Len(l) THEN ToUpperCase(l[i]) ELSE ""

TokAt(l, i) == IF i >= 1 /\ i <= Len(l) THEN l[i] ELSE ""

OpenQuotes == {DQ, "["}
CloseQuotes == {DQ, "]"}

\* (?:["`\[])?(\w+)(?:["`\]])? at position k: <<name, position after>> or NoMatch
QuotedName(l, k) ==
    LET w == IF TokAt(l, k) \in OpenQuotes THEN k + 1 ELSE k
    IN IF IsWord(TokAt(l, w))
       THEN <<l[w], IF TokAt(l, w + 1) \in CloseQuotes THEN w + 2 ELSE w + 1>>
       ELSE NoMatch

\* /CREATE\s+TABLE\s+(?:IF\s+NOT\s+EXISTS\s+)?(?:["`\[])?(\w+)(?:["`\]])?/i at i
SqlCreateTableAt(l, i) ==
    LET j == SkipSpace(l, i + 1)
        k == SkipSpace(l, j + 1)
        k2 == SkipSpace(l, k + 1)
        k3 == SkipSpace(l, k2 + 1)
        k4 == SkipSpace(l, k3 + 1)
        guarded == /\ UpperAt(l, k) = "IF"
                   /\ UpperAt(l, k2) = "NOT"
                   /\ UpperAt(l, k3) = "EXISTS"
                   /\ QuotedName(l, k4) # NoMatch
    IN IF UpperAt(l, i) = "CREATE" /\ UpperAt(l, j) = "TABLE"
       THEN IF guarded THEN QuotedName(l, k4) ELSE QuotedName(l, k)
       ELSE NoMatch

SqlCreateTableMatch(l) ==
    LET hits == {i \in 1..Len(l) : SqlCreateTableAt(l, i) # NoMatch}
    IN IF hits = {} THEN NoMatch ELSE <<SqlCreateTableAt(l, Min(hits))[1]>>

\* FOREIGN\s+KEY\s*\((q)?(\w+)(q)?\)\s*REFERENCES\s+(q)?(\w+)(q)? at i:
\* <<column, target>> or NoMatch
SqlForeignKeyAt(l, i) ==
    LET j == SkipSpace(l, i + 1)
        k == SkipSpace(l, j + 1)
        col == QuotedName(l, k + 1)
        r == IF col = NoMatch THEN 0 ELSE SkipSpace(l, col[2] + 1)
        tgt == IF col = NoMatch THEN NoMatch ELSE QuotedName(l, SkipSpace(l, r + 1))
    IN IF /\ UpperAt(l, i) = "FOREIGN"
          /\ UpperAt(l, j) = "KEY"
          /\ TokAt(l, k) = "("
          /\ col # NoMatch
          /\ TokAt(l, col[2]) = ")"
          /\ UpperAt(l, r) = "REFERENCES"
          /\ tgt # NoMatch
       THEN <<col[1], tgt[1]>>
       ELSE NoMatch

\* inlineFkRegex (line 90)
SqlInlineFkMatch(l) ==
    LET hits == {i \in 1..Len(l) : SqlForeignKeyAt(l, i) # NoMatch}
    IN IF hits = {} THEN NoMatch ELSE SqlForeignKeyAt(l, Min(hits))

\* columnLineRegex (line 85): /^\s*(q)?(\w+)(q)?\s+([A-Z0-9_]+)(.*)$/i
SqlColumnMatch(l) ==
    LET nm == QuotedName(l, SkipSpace(l, 1))
        t == IF nm = NoMatch THEN 0 ELSE SkipSpace(l, nm[2])
        rest == SubSeq(l, t + 1, Len(l))
    IN IF /\ nm # NoMatch
          /\ IsWord(TokAt(l, t))
          /\ \A n \in 1..Len(rest) : rest[n] # NL
       THEN <<nm[1], l[t], rest>>
       ELSE NoMatch

\* alterTableFkRegex (line 87): the lazy gap takes the first ADD CONSTRAINT, the
\* greedy .* the last FOREIGN KEY clause on the same line
SqlAlterMatchAt(l, i) ==
    LET j == SkipSpace(l, i + 1)
        src == QuotedName(l, SkipSpace(l, j + 1))
        adds == IF src = NoMatch THEN {}
                ELSE {a \in src[2]..Len(l) :
                         /\ UpperAt(l, a) = "ADD"
                         /\ UpperAt(l, SkipSpace(l, a + 1)) = "CONSTRAINT"}
        fks(a) == {f \in (SkipSpace(l, a + 1) + 1)..Len(l) :
                      /\ SqlForeignKeyAt(l, f) # NoMatch
                      /\ \A n \in (SkipSpace(l, a + 1) + 1)..(f - 1) : l[n] # NL}
        good == {a \in adds : fks(a) # {}}
    IN IF UpperAt(l, i) = "ALTER" /\ UpperAt(l, j) = "TABLE" /\ good # {}
       THEN LET fk == SqlForeignKeyAt(l, Max(fks(Min(good))))
            IN <<src[1], fk[1], fk[2]>>
       ELSE NoMatch

SqlAlterMatch(l) ==
    LET hits == {i \in 1..Len(l) : SqlAlterMatchAt(l, i) # NoMatch}
    IN IF hits = {} THEN NoMatch ELSE SqlAlterMatchAt(l, Min(hits))

\* line.toUpperCase().startsWith(kw) for kw in PRIMARY, FOREIGN, CONSTRAINT
StartsWithKeyword(l) ==
    UpperAt(l, 1) \in {"PRIMARY", "PRIMARY_TAG", "FOREIGN", "CONSTRAINT"}

\* indexOf / lastIndexOf of a one-character token, 0 when absent
IndexOf(l, tok) ==
    LET hits == {i \in 1..Len(l) : l[i] = tok}
    IN IF hits = {} THEN 0 ELSE Min(hits)

LastIndexOf(l, tok) ==
    LET hits == {i \in 1..Len(l) : l[i] = tok}
    IN IF hits = {} THEN 0 ELSE Max(hits)

\* cleanStmt.substring(bodyStartIndex + 1, bodyEndIndex): substring swaps its
\* arguments when the first is the larger
SqlBody(l, open, close) ==
    IF open < close THEN SubSeq(l, open + 1, close - 1) ELSE SubSeq(l, close, open)

\* the body of lines.forEach (lines 108-129) on the table being built:
\* acc is [columns, relationships, threw]
SqlClause(acc, tableName, clause) ==
    LET inlineFk == SqlInlineFkMatch(clause)
        colMatch == SqlColumnMatch(clause)
    IN IF Truthy(inlineFk)
       THEN IF inlineFk = NoMatch THEN [acc EXCEPT !.threw = TRUE]
            ELSE [acc EXCEPT !.relationships =
                     Append(@, [source |-> tableName, target |-> inlineFk[2],
                                column |-> Some(inlineFk[1])])]
       ELSE IF Truthy(colMatch) /\ ~StartsWithKeyword(clause)
       THEN IF colMatch = NoMatch THEN [acc EXCEPT !.threw = TRUE]
            ELSE [acc EXCEPT !.columns =
                     Append(@, [name |-> colMatch[1], type |-> colMatch[2],
                                details |-> Some(Trim(colMatch[3]))])]
       ELSE acc

RECURSIVE SqlClauses(_, _, _, _)
SqlClauses(acc, tableName, clauses, n) ==
    IF n > Len(clauses) \/ acc.threw THEN acc
    ELSE SqlClauses(SqlClause(acc, tableName, Trim(clauses[n])), tableName,
                    clauses, n + 1)

\* 1. CREATE TABLE (lines 96-132)
SqlCreateTable(st, cleanStmt) ==
    LET tableMatch == SqlCreateTableMatch(cleanStmt)
        bodyStartIndex == IndexOf(cleanStmt, "(")
        bodyEndIndex == LastIndexOf(cleanStmt, ")")
        acc0 == [columns |-> <<>>, relationships |-> st.relationships,
                 threw |-> FALSE]
    IN IF Truthy(tableMatch)
       THEN IF tableMatch = NoMatch THEN Throw(st)
            ELSE LET acc == IF bodyStartIndex # 0 /\ bodyEndIndex # 0
                            THEN SqlClauses(acc0, tableMatch[1],
                                     Split(SqlBody(cleanStmt, bodyStartIndex,
                                                   bodyEndIndex), ","), 1)
                            ELSE acc0
                 IN IF acc.threw THEN Throw(st)
                    ELSE [st EXCEPT
                            !.tables = Append(@, [id |-> tableMatch[1],
                                                  columns |-> acc.columns]),
                            !.relationships = acc.relationships]
       ELSE st

\* 2. ALTER TABLE ... ADD FOREIGN KEY (lines 135-142)
SqlAlterTable(st, cleanStmt) ==
    LET alterMatch == SqlAlterMatch(cleanStmt)
    IN IF Truthy(alterMatch)
       THEN IF alterMatch = NoMatch THEN Throw(st)
            ELSE [st EXCEPT !.relationships =
                     Append(@, [source |-> alterMatch[1], target |-> alterMatch[3],
                                column |-> Some(alterMatch[2])])]
       ELSE st

\* the body of statements.forEach (lines 92-143)
SqlStatement(st, statement) ==
    LET cleanStmt == Trim(statement)
        st1 == SqlCreateTable(st, cleanStmt)
    IN IF st1.threw THEN st1 ELSE SqlAlterTable(st1, cleanStmt)


\* a return statement that hands back the scanned text
SqlReturnClean(c, cleanContent, tb, rel) ==
    [tables |-> tb, relationships |-> rel, rawContent |-> cleanContent]

\* return { tables, relationships, rawContent: content } (line 145)
SqlReturn(c, cleanContent, tb, rel) ==
    [tables |-> tb, relationships |-> rel, rawContent |-> c]

-----------------------------------------------------------------------------
(* parsePrisma: a token of a Prisma line is one whitespace-separated part *)

\* /^model\s+(\w+)\s+\{/
PrismaModelMatch(l) ==
    IF Len(l) >= 3 /\ l[1] = "model" /\ IsWord(l[2]) /\ l[3] = "{"
    THEN <<l[2]>>
    ELSE NoMatch

\* trimmed.startsWith('@@') || trimmed.startsWith('//') || trimmed === ''
PrismaSkipped(l) ==
    l = <<>> \/ l[1] \in {"@@index([authorId])", "@@map(\"people\")", "//"}

\* col.type.replace(/[\[\]?]/g, '')
CleanType(type) ==
    CASE type = "Post[]" -> "Post"
      [] type = "User?" -> "User"
      [] type = "User[]" -> "User"
      [] OTHER -> type

\* tokens that contain the text @relation
HasRelation(tok) ==
    tok \in {"@relation", "@relation(fields:[authorId],references:[id])"}

\* col.details?.includes('@relation')
IsForeignKeyHolder(details) ==
    details # None /\ \E n \in 1..Len(details[1]) : HasRelation(details[1][n])

\* the field declaration of a line (lines 171-191)
PrismaField(st, trimmed) ==
    IF PrismaSkipped(trimmed) THEN st
    ELSE IF Len(trimmed) >= 2
    THEN PushColumn(st, [name |-> trimmed[1], type |-> trimmed[2],
                         details |-> Some(SubSeq(trimmed, 3, Len(trimmed)))])
    ELSE st

\* the body of lines.forEach (lines 156-192)
PrismaLine(st, line) ==
    LET trimmed == Trim(line)
        modelMatch == PrismaModelMatch(trimmed)
    IN IF Truthy(modelMatch)
       THEN IF modelMatch = NoMatch THEN Throw(st)
            ELSE OpenTable(st, modelMatch[1])
       ELSE IF trimmed = <<"}">> /\ st.currentTable # 0
       THEN [st EXCEPT !.currentTable = 0]
       ELSE IF st.currentTable # 0 THEN PrismaField(st, trimmed)
       ELSE st

\* a second pass that draws the link of a pair without @relation from the
\* side whose id sorts first
PrismaRelateColumnFallback(tb, rel, sourceId, col) ==
    LET cleanType == CleanType(col.type)
        modelNames == {tb[k].id : k \in 1..Len(tb)}
    IN IF cleanType \in modelNames
          /\ (IsForeignKeyHolder(col.details)
                  \/ <<sourceId, cleanType>> \in {<<"Post", "User">>})
       THEN Append(rel, [source |-> sourceId, target |-> cleanType,
                         column |-> Some(col.name)])
       ELSE rel

\* the body of source.columns.forEach (lines 198-226)
PrismaRelateColumn(tb, rel, sourceId, col) ==
    LET cleanType == CleanType(col.type)
        modelNames == {tb[k].id : k \in 1..Len(tb)}
    IN IF cleanType \in modelNames /\ IsForeignKeyHolder(col.details)
       THEN Append(rel, [source |-> sourceId, target |-> cleanType,
                         column |-> Some(col.name)])
       ELSE rel

RECURSIVE PrismaRelateColumns(_, _, _, _, _)
PrismaRelateColumns(tb, rel, sourceId, cols, c) ==
    IF c > Len(cols) THEN rel
    ELSE PrismaRelateColumns(tb, PrismaRelateColumn(tb, rel, sourceId, cols[c]),
                             sourceId, cols, c + 1)

\* the second pass tables.forEach (lines 195-227), from table k on
RECURSIVE PrismaRelate(_, _, _)
PrismaRelate(tb, rel, k) ==
    IF k > Len(tb) THEN rel
    ELSE PrismaRelate(tb, PrismaRelateColumns(tb, rel, tb[k].id, tb[k].columns, 1),
                      k + 1)

\* return { tables, relationships, rawContent: content } (line 229)
PrismaReturn(c, tb, rel) ==
    [tables |-> tb, relationships |-> rel, rawContent |-> c]

-----------------------------------------------------------------------------
(* parseDjango *)

\* /^class\s+(\w+)\(.*\):/
DjangoClassMatch(l) ==
    IF /\ Len(l) >= 5
       /\ l[1] = "class"
       /\ IsWord(l[2])
       /\ l[3] = "("
       /\ \E k \in 4..(Len(l) - 1) : l[k] = ")" /\ l[k + 1] = ":"
    THEN <<l[2]>>
    ELSE NoMatch

\* tokens that contain the character =
HasEquals(tok) == tok \in {"=", "max_length=100", "on_delete=models.CASCADE"}

\* trimmed.includes('=')
IncludesEquals(l) == \E n \in 1..Len(l) : HasEquals(l[n])

\* models\.\w+|[a-zA-Z0-9_]+
IsFieldType(tok) ==
    \/ tok \in {"models.CharField", "models.ForeignKey", "models.OneToOneField",
                "models.Model"}
    \/ IsWord(tok)

\* /^(\w+)\s*=\s*(models\.\w+|[a-zA-Z0-9_]+)\((.*)\)/: .* is greedy, so the
\* argument string runs up to the last closing parenthesis
DjangoFieldMatch(l) ==
    LET close == LastIndexOf(l, ")")
    IN IF /\ Len(l) >= 5
          /\ IsWord(l[1])
          /\ l[2] = "="
          /\ IsFieldType(l[3])
          /\ l[4] = "("
          /\ close >= 5
       THEN <<l[1], l[3], SubSeq(l, 5, close - 1)>>
       ELSE NoMatch

\* fieldType.includes('ForeignKey') || ...('OneToOneField') || ...('ManyToManyField')
IsReferenceField(type) ==
    type \in {"models.ForeignKey", "ForeignKey", "models.OneToOneField",
              "ManyToManyField"}

\* args.match(/^(?:'|")?(\w+)(?:'|")?/)
DjangoTargetMatch(args) ==
    LET w == IF TokAt(args, 1) \in {SQ, DQ} THEN 2 ELSE 1
    IN IF IsWord(TokAt(args, w)) THEN <<args[w]>> ELSE NoMatch

\* a reference check that links parsed classes only
DjangoReferenceDeclared(st, fieldName, fieldType, args) ==
    LET targetMatch == DjangoTargetMatch(args)
    IN IF /\ IsReferenceField(fieldType)
          /\ targetMatch # NoMatch
          /\ targetMatch[1] # "self"
          /\ \E k \in 1..Len(st.tables) : st.tables[k].id = targetMatch[1]
       THEN [st EXCEPT !.relationships =
                Append(@, [source |-> st.tables[st.currentTable].id,
                           target |-> targetMatch[1],
                           column |-> Some(fieldName)])]
       ELSE st

\* the reference check of a field (lines 267-278)
DjangoReference(st, fieldName, fieldType, args) ==
    LET targetMatch == DjangoTargetMatch(args)
    IN IF IsReferenceField(fieldType) /\ Truthy(targetMatch)
       THEN IF targetMatch = NoMatch THEN Throw(st)
            ELSE IF targetMatch[1] # "self"
            THEN [st EXCEPT !.relationships =
                     Append(@, [source |-> st.tables[st.currentTable].id,
                                target |-> targetMatch[1],
                                column |-> Some(fieldName)])]
            ELSE st
       ELSE st

\* the field assignment of a line (lines 252-280)
DjangoField(st, trimmed) ==
    LET fieldMatch == DjangoFieldMatch(trimmed)
    IN IF Truthy(fieldMatch)
       THEN IF fieldMatch = NoMatch THEN Throw(st)
            ELSE LET st1 == PushColumn(st, [name |-> fieldMatch[1],
                                            type |-> fieldMatch[2],
                                            details |-> Some(fieldMatch[3])])
                 IN IF st1.threw THEN st1
                    ELSE DjangoReference(st1, fieldMatch[1], fieldMatch[2],
                                         fieldMatch[3])
       ELSE st

\* a scanner that closes the class at the header of a class without base
\* classes
DjangoLineNested(st, line) ==
    LET trimmed == Trim(line)
        classMatch == DjangoClassMatch(trimmed)
    IN IF classMatch # NoMatch THEN OpenTable(st, classMatch[1])
       ELSE IF TokAt(trimmed, 1) = "class" THEN [st EXCEPT !.currentTable = 0]
       ELSE IF st.currentTable # 0 /\ IncludesEquals(trimmed)
       THEN DjangoField(st, trimmed)
       ELSE st

\* the body of lines.forEach (lines 240-281)
DjangoLine(st, line) ==
    LET trimmed == Trim(line)
        classMatch == DjangoClassMatch(trimmed)
    IN IF Truthy(classMatch)
       THEN IF classMatch = NoMatch THEN Throw(st)
            ELSE OpenTable(st, classMatch[1])
       ELSE IF st.currentTable # 0 /\ IncludesEquals(trimmed)
       THEN DjangoField(st, trimmed)
       ELSE st

\* return { tables, relationships, rawContent: content } (line 283)
DjangoReturn(c, tb, rel) ==
    [tables |-> tb, relationships |-> rel, rawContent |-> c]

-----------------------------------------------------------------------------
(* parseSchema *)

\* filename.split('.').pop()?.toLowerCase() (line 287)
Ext(f) ==
    LET parts == Split(f, ".")
        last == parts[Len(parts)]
    IN IF last = <<>> THEN "" ELSE ToLowerCase(last[1])


\* the CREATE TABLE test without toUpperCase
IncludesCreateTableExact(c) ==
    \E n \in 1..(Len(c) - 1) : c[n] = "CREATE" /\ c[n + 1] = "TABLE"

\* content.toUpperCase().includes('CREATE TABLE')
IncludesCreateTable(c) ==
    \E n \in 1..(Len(c) - 1) :
        ToUpperCase(c[n]) = "CREATE" /\ ToUpperCase(c[n + 1]) = "TABLE"


\* a detection whose last resort is the SQL scanner
DetectLastResortSql(c, f) ==
    LET ext == Ext(f)
    IN IF ext = "prisma" \/ IncludesSeq(c, <<"generator", "client", "{">>)
       THEN "prisma"
       ELSE IF ext = "py" \/ Includes(c, "models.Model") \/ Includes(c, "django.db")
       THEN "django"
       ELSE IF \/ ext = "rb"
               \/ Includes(c, "ActiveRecord::Schema")
               \/ Includes(c, "create_table")
       THEN "rails"
       ELSE "sql"

\* a detection that tests for CREATE TABLE ahead of the Rails markers
DetectSqlBeforeRails(c, f) ==
    LET ext == Ext(f)
    IN IF ext = "prisma" \/ IncludesSeq(c, <<"generator", "client", "{">>)
       THEN "prisma"
       ELSE IF ext = "py" \/ Includes(c, "models.Model") \/ Includes(c, "django.db")
       THEN "django"
       ELSE IF ext = "sql" \/ IncludesCreateTable(c)
       THEN "sql"
       ELSE "rails"

\* the heuristic detection (lines 289-309): the scanner parseSchema calls
Detect(c, f) ==
    LET ext == Ext(f)
    IN IF ext = "prisma" \/ IncludesSeq(c, <<"generator", "client", "{">>)
       THEN "prisma"
       ELSE IF ext = "py" \/ Includes(c, "models.Model") \/ Includes(c, "django.db")
       THEN "django"
       ELSE IF \/ ext = "rb"
               \/ Includes(c, "ActiveRecord::Schema")
               \/ Includes(c, "create_table")
       THEN "rails"
       ELSE IF ext = "sql" \/ IncludesCreateTable(c)
       THEN "sql"
       ELSE "rails"

\* what the selected scanner iterates over (lines 11, 80, 153, 237)
Units(d, c) ==
    IF d = "sql" THEN Split(CleanContent(c), ";") ELSE Split(c, NL)


\* a tables array declared at module level, shared by all calls
NewTablesShared(old) == old

\* const tables: Table[] = [] at the entry of a scanner (lines 9, 71, 150, 234)
NewTables(old) == <<>>

\* const relationships: Relationship[] = [] (lines 10, 72, 151, 235)
NewRelationships(old) == <<>>

-----------------------------------------------------------------------------
(* Inputs *)

FragRailsUsers == <<"create_table", DQ, "users", DQ, "do", NL>>

FragRailsPosts ==
    <<"create_table", DQ, "posts", DQ, "do", NL,
      WS, "t.", "bigint", DQ, "user_id", DQ, ",", "null:", "false", NL>>

FragRailsColumn == <<WS, "t.", "string", DQ, "name", DQ, NL>>

FragRailsEnd == <<WS, "end", NL>>

FragRailsFk ==
    <<"add_foreign_key", DQ, "posts", DQ, ",", DQ, "users", DQ, NL>>

FragSqlUsers ==
    <<"CREATE", "TABLE", "users", "(", NL,
      WS, "id", "INT", "PRIMARY", "KEY", ",", "name", "TEXT", NL, ")", ";", NL>>

FragSqlPosts ==
    <<"create", "table", "IF", "NOT", "EXISTS", DQ, "posts", DQ, "(", NL,
      WS, "user_id", "INT", ",", "/*", ";", "*/",
      "FOREIGN", "KEY", "(", "user_id", ")", "REFERENCES", "users",
      "(", "id", ")", ")", ";", NL>>

FragSqlAlter ==
    <<"ALTER", "TABLE", "posts", "ADD", "CONSTRAINT", "fk_posts_users",
      "FOREIGN", "KEY", "(", "user_id", ")", "REFERENCES", "users",
      "(", "id", ")", ";", NL>>

FragSqlComment == <<"--", "legacy", "create_table", NL>>

FragPrismaUser ==
    <<"generator", "client", "{", NL, "}", NL,
      "model", "User", "{", NL, WS, "id", "Int", "@id", NL,
      WS, "posts", "Post[]", NL, "}", NL>>

FragPrismaPost ==
    <<"model", "Post", "{", NL,
      WS, "author", "User", "@relation(fields:[authorId],references:[id])", NL>>

FragDjangoUser ==
    <<"class", "User", "(", "models.Model", ")", ":", NL,
      WS, "name", "=", "models.CharField", "(", "max_length=100", ")", NL>>

FragDjangoPost ==
    <<"class", "Post", "(", "models.Model", ")", ":", NL,
      WS, "author", "=", "models.ForeignKey", "(", "User", ",",
      "on_delete=models.CASCADE", ")", NL>>

Frags ==
    {FragRailsUsers, FragRailsPosts, FragRailsColumn, FragRailsEnd, FragRailsFk,
     FragSqlUsers, FragSqlPosts, FragSqlAlter, FragSqlComment,
     FragPrismaUser, FragPrismaPost, FragDjangoUser, FragDjangoPost}

RECURSIVE Flatten(_)
Flatten(fs) == IF fs = <<>> THEN <<>> ELSE Head(fs) \o Flatten(Tail(fs))

\* the texts made of at most n fragments
ContentsOf(F, n) == {Flatten(fs) : fs \in UNION {[1..k -> F] : k \in 0..n}}

Contents == ContentsOf(Frags, MaxFrags)

Filenames ==
    {<<"x", ".", "txt">>, <<"example", ".", "rb">>, <<"db", ".", "SQL">>,
     <<"schema", ".", "prisma">>, <<"models", ".", "py">>, <<"py">>}

\* the inputs of the specification of repeated calls
CallContents ==
    ContentsOf({FragRailsPosts, FragRailsColumn, FragSqlPosts, FragPrismaUser,
                FragDjangoPost}, 1)

CallFilenames == {<<"x", ".", "txt">>, <<"db", ".", "SQL">>}

-----------------------------------------------------------------------------
(* The state machine *)

st0 == Locals(tables, relationships, currentTable)

InitWith(C, F) ==
    /\ content \in C
    /\ filename \in F
    /\ pc = "start"
    /\ dialect = "none"
    /\ units = <<>>
    /\ idx = 0
    /\ tables = <<>>
    /\ relationships = <<>>
    /\ currentTable = 0
    /\ result = None
    /\ calls = 0
    /\ memo = None
    /\ schemaData = None
    /\ selectedTable = None
    /\ isFocused = FALSE
    /\ analysisStatus = "IDLE"
    /\ analysisReport = None
    /\ pending = <<>>
    /\ unhandled = FALSE
    /\ response = None
    /\ layout = "FORCE"
    /\ searchTerm = ""
    /\ reading = None
    /\ stored = None
    /\ nodesRef = <<>>
    /\ linksRef = <<>>
    /\ passes = 0
    /\ graphState = "unmounted"

Init == InitWith(Contents, Filenames)

\* parseSchema up to the entry of the selected scanner's loop
ParseSchema ==
    /\ pc = "start"
    /\ dialect' = Detect(content, filename)
    /\ units' = Units(dialect', content)
    /\ idx' = 0
    /\ tables' = NewTables(tables)
    /\ relationships' = NewRelationships(relationships)
    /\ currentTable' = 0
    /\ pc' = "scan"
    /\ UNCHANGED <<content, filename, result, calls, memo>>
    /\ UNCHANGED appVars

\* one iteration of the scanner's forEach: st is the callback's effect on the
\* locals for the unit at hand
Scan(d, st) ==
    /\ pc = "scan"
    /\ dialect = d
    /\ idx < Len(units)
    /\ tables' = st.tables
    /\ relationships' = st.relationships
    /\ currentTable' = st.currentTable
    /\ pc' = IF st.threw THEN "raised" ELSE "scan"
    /\ idx' = idx + 1
    /\ UNCHANGED <<content, filename, dialect, units, result, calls, memo>>
    /\ UNCHANGED appVars

RailsScan == Scan("rails", RailsLine(st0, units[idx + 1]))
SqlScan == Scan("sql", SqlStatement(st0, units[idx + 1]))
PrismaScan == Scan("prisma", PrismaLine(st0, units[idx + 1]))
DjangoScan == Scan("django", DjangoLine(st0, units[idx + 1]))

\* the end of a scanner: its post-pass and its return statement
Finish(d, rel, ret) ==
    /\ pc = "scan"
    /\ dialect = d
    /\ idx = Len(units)
    /\ relationships' = rel
    /\ result' = Some(ret)
    /\ calls' = calls + 1
    /\ memo' = IF memo = None
               THEN Some([content |-> content, filename |-> filename,
                          result |-> ret])
               ELSE memo
    /\ pc' = "done"
    /\ UNCHANGED <<content, filename, dialect, units, idx, tables, currentTable>>
    /\ UNCHANGED appVars

RailsFinish ==
    LET rel == RailsInfer(tables, relationships, 1)
    IN Finish("rails", rel, RailsReturn(content, tables, rel))

SqlFinish ==
    Finish("sql", relationships,
           SqlReturn(content, CleanContent(content), tables, relationships))

PrismaFinish ==
    LET rel == PrismaRelate(tables, relationships, 1)
    IN Finish("prisma", rel, PrismaReturn(content, tables, rel))

DjangoFinish ==
    Finish("django", relationships, DjangoReturn(content, tables, relationships))

Next ==
    \/ ParseSchema
    \/ RailsScan
    \/ SqlScan
    \/ PrismaScan
    \/ DjangoScan
    \/ RailsFinish
    \/ SqlFinish
    \/ PrismaFinish
    \/ DjangoFinish

Spec == Init /\ [][Next]_vars

\* a further call of parseSchema after one has returned
CallAgain ==
    /\ pc = "done"
    /\ calls < MaxCalls
    /\ content' \in CallContents
    /\ filename' \in CallFilenames
    /\ pc' = "start"
    /\ UNCHANGED <<dialect, units, idx, tables, relationships, currentTable,
                   result, calls, memo>>
    /\ UNCHANGED appVars

NextCalls == Next \/ CallAgain

SpecCalls == InitWith(CallContents, CallFilenames) /\ [][NextCalls]_vars

-----------------------------------------------------------------------------
(* Rails schemas for the inference pass *)

\* the three tables of EXAMPLE_SCHEMA, each with its columns that matter here
FragRailsExample ==
    <<"create_table", DQ, "users", DQ, "do", NL,
      "end", NL,
      "create_table", DQ, "posts", DQ, "do", NL,
      "t.", "bigint", DQ, "user_id", DQ, NL,
      "end", NL,
      "create_table", DQ, "comments", DQ, "do", NL,
      "t.", "bigint", DQ, "user_id", DQ, NL,
      "t.", "bigint", DQ, "post_id", DQ, NL,
      "end", NL>>

FragRailsFkComments ==
    <<"add_foreign_key", DQ, "comments", DQ, ",", DQ, "posts", DQ, NL>>

FragRailsAuthor == <<"create_table", DQ, "author", DQ, "do", NL, WS, "end", NL>>

FragRailsAuthors ==
    <<"create_table", DQ, "authors", DQ, "do", NL, WS, "end", NL>>

FragRailsBooks ==
    <<"create_table", DQ, "books", DQ, "do", NL,
      WS, "t.", "bigint", DQ, "author_id", DQ, NL>>

FragRailsAuthorId == <<WS, "t.", "bigint", DQ, "author_id", DQ, NL>>

RailsFrags ==
    {FragRailsExample, FragRailsFk, FragRailsFkComments, FragRailsAuthor,
     FragRailsAuthors, FragRailsBooks, FragRailsAuthorId}

RailsContents == ContentsOf(RailsFrags, MaxFrags)

RailsFilenames == {<<"schema", ".", "rb">>}

NextRails == ParseSchema \/ RailsScan \/ RailsFinish

SpecRails == InitWith(RailsContents, RailsFilenames) /\ [][NextRails]_vars

-----------------------------------------------------------------------------
(* Properties *)

Dialects == {"rails", "sql", "prisma", "django"}

CanonicalExts == {"rb", "sql", "prisma", "py"}

\* the filename ends in a dot followed by e
EndsInExt(f, e) == Len(f) >= 2 /\ f[Len(f) - 1] = "." /\ f[Len(f)] = e

IsOptional(v) == v = None \/ (Len(v) = 1)

IsColumn(col) ==
    /\ DOMAIN col = {"name", "type", "details"}
    /\ IsOptional(col.details)

IsTable(t) ==
    /\ DOMAIN t = {"id", "columns"}
    /\ IsWord(t.id)
    /\ \A c \in 1..Len(t.columns) : IsColumn(t.columns[c])

IsRelationship(r) ==
    /\ DOMAIN r = {"source", "target", "column"}
    /\ IsWord(r.source)
    /\ IsWord(r.target)
    /\ IsOptional(r.column)

\* the shape of a SchemaData value
IsSchemaData(d) ==
    /\ DOMAIN d = {"tables", "relationships", "rawContent"}
    /\ \A k \in 1..Len(d.tables) : IsTable(d.tables[k])
    /\ \A k \in 1..Len(d.relationships) : IsRelationship(d.relationships[k])

Returned == pc = "done"

\* C1: parseSchema is total: whatever the content and the filename, and whichever
\* scanner is selected, the call never raises, the loop of one of the four
\* scanners stays within its units until the call returns, and what it returns is
\* a SchemaData value.
C1_Total ==
    /\ pc \in {"start", "scan", "done"}
    /\ pc = "scan" => dialect \in Dialects /\ idx \in 0..Len(units)
    /\ Returned => result # None /\ IsSchemaData(result[1])

\* a call has returned from a scanner that was left with an open declaration
C1_Witness == Returned /\ currentTable # 0 /\ dialect = "prisma"

TxtFile == <<"x", ".", "txt">>

EmptyModel == [tables |-> <<>>, relationships |-> <<>>, rawContent |-> <<>>]

\* C2: parsing the empty string with filename x.txt does not raise and returns
\* exactly {tables: [], relationships: [], rawContent: ""}.
C2_Empty ==
    (content = <<>> /\ filename = TxtFile) =>
        /\ pc # "raised"
        /\ Returned => result = Some(EmptyModel)

C2_Witness == Returned /\ content = <<>> /\ filename = TxtFile /\ idx = 1

\* C3: the rawContent of the returned model is the content argument, token for
\* token, for every dialect; the comment stripping of the SQL scanner does not
\* reach it.
C3_RawContent == Returned => result[1].rawContent = content

\* the SQL scanner has returned for a text whose comments it stripped
C3_Witness ==
    Returned /\ dialect = "sql" /\ CleanContent(content) # content

\* C4: a call with the same content and filename as the first call that returned
\* returns a model equal to the first one, whatever calls were made in between.
C4_Deterministic ==
    (Returned /\ memo # None /\ memo[1].content = content
              /\ memo[1].filename = filename)
        => result[1] = memo[1].result

\* the third call repeats the input of the first and has returned a table
C4_Witness ==
    /\ Returned
    /\ calls = 3
    /\ memo[1].content = content
    /\ memo[1].filename = filename
    /\ result[1].tables # <<>>

\* C5: the filename extension decides the scanner before any content signal:
\* .rb selects Rails, .sql SQL, .prisma Prisma and .py Django.
C5_ExtensionFirst ==
    pc # "start" =>
        /\ EndsInExt(filename, "rb") => dialect = "rails"
        /\ EndsInExt(filename, "sql") => dialect = "sql"
        /\ EndsInExt(filename, "prisma") => dialect = "prisma"
        /\ EndsInExt(filename, "py") => dialect = "django"

\* none of the four markers the claim lists is in the content
NoListedMarker(c) ==
    /\ ~IncludesSeq(c, <<"generator", "client", "{">>)
    /\ ~Includes(c, "models.Model")
    /\ ~Includes(c, "django.db")
    /\ ~Includes(c, "ActiveRecord::Schema")

\* the text CREATE TABLE, in upper or lower case, is in the content
HasCreateTableAnyCase(c) ==
    \E n \in 1..(Len(c) - 1) :
        c[n] \in {"CREATE", "create"} /\ c[n + 1] \in {"TABLE", "table"}

\* C6 as stated: without a canonical extension and without one of the four listed
\* markers, content containing CREATE TABLE in any letter case is scanned as SQL.
C6_Original ==
    (/\ pc # "start"
     /\ Ext(filename) \notin CanonicalExts
     /\ NoListedMarker(content)
     /\ HasCreateTableAnyCase(content))
        => dialect = "sql"

\* C6 as amended: the same, when the content does not contain create_table either.
C6_CreateTableFallback ==
    (/\ pc # "start"
     /\ Ext(filename) \notin CanonicalExts
     /\ NoListedMarker(content)
     /\ ~Includes(content, "create_table")
     /\ HasCreateTableAnyCase(content))
        => dialect = "sql"

\* the SQL scanner was selected for a lower-case create table, by content alone
C6_Witness ==
    /\ Returned
    /\ dialect = "sql"
    /\ Ext(filename) \notin CanonicalExts
    /\ ~(\E n \in 1..Len(content) : content[n] = "CREATE")
    /\ tables # <<>>

\* C7: detection ends with one dialect; when no extension, no content marker and
\* no CREATE TABLE matches, the Rails scanner is applied and the call returns a
\* model, not an error.
C7_LastResort ==
    /\ pc # "start" => dialect \in Dialects
    /\ (/\ pc # "start"
        /\ Ext(filename) \notin CanonicalExts
        /\ NoListedMarker(content)
        /\ ~Includes(content, "create_table")
        /\ ~HasCreateTableAnyCase(content))
           => /\ dialect = "rails"
              /\ pc # "raised"
              /\ Returned => IsSchemaData(result[1])

\* the Rails scanner has returned an empty model for a text with no signal
C7_Witness ==
    /\ Returned
    /\ dialect = "rails"
    /\ content # <<>>
    /\ Ext(filename) \notin CanonicalExts
    /\ ~Includes(content, "create_table")
    /\ result[1].tables = <<>>

\* C8: the ids of the tables of a returned model are pairwise distinct.
C8_UniqueTableIds ==
    Returned =>
        \A i, j \in 1..Len(result[1].tables) :
            i # j => result[1].tables[i].id # result[1].tables[j].id

\* C9: a returned model holds no two relationships with the same
\* (source, target, column).
C9_NoDuplicateRelationship ==
    Returned =>
        \A i, j \in 1..Len(result[1].relationships) :
            i # j => result[1].relationships[i] # result[1].relationships[j]

\* table k of the model has a column named c that the Rails inference resolves to
\* table m, and an explicit relationship without column joins the two
ExplicitAndInferable(d, k, c, m) ==
    LET col == d.tables[k].columns[c]
    IN /\ EndsWith(col.name, "_id")
       /\ m = FindTable(d.tables,
                        {Concat(StripSuffix(col.name, "_id"), "s"),
                         Concat(StripSuffix(col.name, "_id"), "es"),
                         StripSuffix(col.name, "_id")})
       /\ \E r \in 1..Len(d.relationships) :
             d.relationships[r] = [source |-> d.tables[k].id,
                                   target |-> d.tables[m].id, column |-> None]

HasRelationship(d, s, t, c) ==
    \E r \in 1..Len(d.relationships) :
        d.relationships[r] = [source |-> s, target |-> t, column |-> c]

\* C10 as stated: next to an explicit relationship s -> t without column, the
\* edge inferred from a column of s that resolves to t is in the model too.
C10_Original ==
    (Returned /\ dialect = "rails") =>
        \A k \in 1..Len(tables) : \A c \in 1..Len(tables[k].columns) :
            \A m \in 1..Len(tables) :
                ExplicitAndInferable(result[1], k, c, m) =>
                    HasRelationship(result[1], tables[k].id, tables[m].id,
                                    Some(tables[k].columns[c].name))

\* C10 as amended: the inference tests the pair (source, target) only, so next to
\* an explicit relationship s -> t without column the edge inferred from a column
\* of s that resolves to t is not added.
C10_PairSuppressesInference ==
    (Returned /\ dialect = "rails") =>
        \A k \in 1..Len(tables) : \A c \in 1..Len(tables[k].columns) :
            \A m \in 1..Len(tables) :
                ExplicitAndInferable(result[1], k, c, m) =>
                    ~HasRelationship(result[1], tables[k].id, tables[m].id,
                                     Some(tables[k].columns[c].name))

\* posts has user_id, users exists, and posts -> users was stated explicitly
C10_Witness ==
    /\ Returned
    /\ dialect = "rails"
    /\ \E k \in 1..Len(tables) : \E c \in 1..Len(tables[k].columns) :
           \E m \in 1..Len(tables) : ExplicitAndInferable(result[1], k, c, m)

-----------------------------------------------------------------------------
(* Single-table declarations in the four dialects *)

MaxCols == 2

ShapeFilename(d) ==
    CASE d = "rails" -> <<"schema", ".", "rb">>
      [] d = "sql" -> <<"db", ".", "sql">>
      [] d = "prisma" -> <<"schema", ".", "prisma">>
      [] d = "django" -> <<"models", ".", "py">>

\* the line or text that opens the declaration
ShapeOpener(d) ==
    CASE d = "rails" -> <<"create_table", DQ, "users", DQ, "do", NL>>
      [] d = "sql" -> <<"CREATE", "TABLE", "users", "(", NL>>
      [] d = "prisma" -> <<"model", "User", "{", NL>>
      [] d = "django" -> <<"class", "User", "(", "models.Model", ")", ":", NL>>

\* the closing token of the declaration; a class body has none
ShapeCloser(d) ==
    CASE d = "rails" -> <<"end", NL>>
      [] d = "sql" -> <<NL, ")", ";", NL>>
      [] d = "prisma" -> <<"}", NL>>
      [] d = "django" -> <<>>

\* what stands between two column declarations
ShapeSeparator(d) == IF d = "sql" THEN <<",", NL>> ELSE <<>>

\* column declarations: the declared name and the text
ShapeColumns(d) ==
    CASE d = "rails" ->
           {[name |-> "name", text |-> <<WS, "t.", "string", DQ, "name", DQ, NL>>],
            [name |-> "user_id",
             text |-> <<WS, "t.", "bigint", DQ, "user_id", DQ, ",", "null:",
                        "false", NL>>]}
      [] d = "sql" ->
           {[name |-> "id", text |-> <<WS, "id", "INT">>],
            [name |-> "name", text |-> <<WS, "name", "VARCHAR", "(", "255", ")">>],
            [name |-> "user_id", text |-> <<WS, "user_id", "INT", "NOT", "NULL">>],
            [name |-> "primary_tag", text |-> <<WS, "primary_tag", "TEXT">>]}
      [] d = "prisma" ->
           {[name |-> "id", text |-> <<WS, "id", "Int", "@id", NL>>],
            [name |-> "name", text |-> <<WS, "name", "String", NL>>]}
      [] d = "django" ->
           {[name |-> "name",
             text |-> <<WS, "name", "=", "models.CharField", "(",
                        "max_length=100", ")", NL>>],
            [name |-> "title",
             text |-> <<WS, "title", "=", "models.CharField", "(", ")", NL>>]}

ColumnSeqs(d) == UNION {[1..n -> ShapeColumns(d)] : n \in 0..MaxCols}

RECURSIVE Join(_, _)
Join(cols, sep) ==
    IF cols = <<>> THEN <<>>
    ELSE IF Len(cols) = 1 THEN cols[1].text
    ELSE cols[1].text \o sep \o Join(Tail(cols), sep)

\* a declaration of one table with the columns cols, with or without its
\* closing token
Declaration(d, cols, closed) ==
    ShapeOpener(d) \o Join(cols, ShapeSeparator(d))
        \o (IF closed THEN ShapeCloser(d) ELSE <<>>)

ShapeContents(d) ==
    {Declaration(d, cols, closed) : cols \in ColumnSeqs(d), closed \in BOOLEAN}

InitShapes ==
    \E d \in {"rails", "sql", "prisma", "django"} :
        InitWith(ShapeContents(d), {ShapeFilename(d)})

SpecShapes == InitShapes /\ [][Next]_vars

-----------------------------------------------------------------------------
(* The App component: schema loading, table selection and focus mode *)

MaxUploadFrags == 2

\* schemas loaded in one run of the App, the example schema included
MaxLoads == 2

FragRailsFkCommentsUsers ==
    <<"add_foreign_key", DQ, "comments", DQ, ",", DQ, "users", DQ, NL>>

\* EXAMPLE_SCHEMA
ExampleSchema ==
    Flatten(<<FragRailsExample, FragRailsFk, FragRailsFkComments,
              FragRailsFkCommentsUsers>>)

\* the files a user uploads
UploadFrags ==
    {FragRailsExample, FragRailsFk, FragRailsFkComments, FragRailsBooks,
     FragRailsAuthors}

UploadContents == ContentsOf(UploadFrags, MaxUploadFrags)

UploadFilenames == {<<"schema", ".", "rb">>}

\* the effect that resets the focus when the selection is cleared
FocusResetEffect(selected, focused) ==
    IF selected = None THEN FALSE ELSE focused


\* a focus filter that follows the relationships leaving the table only
ActiveDataOutgoing(data, focused, selected) ==
    IF data = None THEN None
    ELSE IF focused /\ selected # None
    THEN LET tableId == selected[1].id
             isConnected(r) == r.source = tableId
             relevantRelationships == SelectSeq(data[1].relationships, isConnected)
             connectedTableIds ==
                 {tableId}
                     \cup {relevantRelationships[j].source :
                              j \in 1..Len(relevantRelationships)}
                     \cup {relevantRelationships[j].target :
                              j \in 1..Len(relevantRelationships)}
             relevantTables ==
                 SelectSeq(data[1].tables, LAMBDA t : t.id \in connectedTableIds)
         IN Some([data[1] EXCEPT !.tables = relevantTables,
                                 !.relationships = relevantRelationships])
    ELSE data

\* activeData: the schema handed to the graph
ActiveData(data, focused, selected) ==
    IF data = None THEN None
    ELSE IF focused /\ selected # None
    THEN LET tableId == selected[1].id
             isConnected(r) == r.source = tableId \/ r.target = tableId
             relevantRelationships == SelectSeq(data[1].relationships, isConnected)
             connectedTableIds ==
                 {tableId}
                     \cup {relevantRelationships[j].source :
                              j \in 1..Len(relevantRelationships)}
                     \cup {relevantRelationships[j].target :
                              j \in 1..Len(relevantRelationships)}
             relevantTables ==
                 SelectSeq(data[1].tables, LAMBDA t : t.id \in connectedTableIds)
         IN Some([data[1] EXCEPT !.tables = relevantTables,
                                 !.relationships = relevantRelationships])
    ELSE data

\* the mount effect once its call parseSchema(EXAMPLE_SCHEMA, 'example.rb') has
\* returned: setSchemaData(data)
Mount ==
    /\ pc = "done"
    /\ schemaData = None
    /\ schemaData' = result
    /\ pc' = "idle"
    /\ UNCHANGED <<selectedTable, isFocused, analysisVars, controlVars, graphVars>>
    /\ UNCHANGED <<content, filename, dialect, units, idx, tables, relationships,
                   currentTable, result, calls, memo>>

\* reader.onload of processFile up to its call of parseSchema: a non-empty
\* file content out of C, of a file named out of F, is handed to the parser
ProcessFileOf(C, F) ==
    /\ pc = "idle"
    /\ calls < MaxLoads
    /\ \E c \in C, f \in F :
           /\ c # <<>>
           /\ content' = c
           /\ filename' = f
    /\ pc' = "start"
    /\ UNCHANGED <<dialect, units, idx, tables, relationships, currentTable,
                   result, calls, memo>>
    /\ UNCHANGED appVars

ProcessFile == ProcessFileOf(UploadContents, UploadFilenames)

\* a load that installs the schema and keeps the analysis report
InstallFileKeepingReport ==
    /\ pc = "done"
    /\ schemaData # None
    /\ schemaData' = result
    /\ selectedTable' = None
    /\ analysisStatus' = "IDLE"
    /\ isFocused' = FocusResetEffect(selectedTable', FALSE)
    /\ pc' = "idle"
    /\ UNCHANGED <<analysisReport, pending, unhandled, response, controlVars, graphVars>>
    /\ UNCHANGED <<content, filename, dialect, units, idx, tables, relationships,
                   currentTable, result, calls, memo>>

\* reader.onload of processFile once parseSchema has returned: the parsed
\* schema is installed and the selection, the analysis and the focus are reset
InstallFile ==
    /\ pc = "done"
    /\ schemaData # None
    /\ schemaData' = result
    /\ selectedTable' = None
    /\ analysisStatus' = "IDLE"
    /\ analysisReport' = None
    /\ isFocused' = FocusResetEffect(selectedTable', FALSE)
    /\ pc' = "idle"
    /\ UNCHANGED <<pending, unhandled, response, controlVars, graphVars>>
    /\ UNCHANGED <<content, filename, dialect, units, idx, tables, relationships,
                   currentTable, result, calls, memo>>

\* a click on a table of the sidebar list or on a node of the graph
SelectTable ==
    /\ pc = "idle"
    /\ \E k \in 1..Len(schemaData[1].tables) :
           selectedTable' = Some(schemaData[1].tables[k])
    /\ isFocused' = FocusResetEffect(selectedTable', isFocused)
    /\ UNCHANGED <<schemaData, analysisVars, controlVars, graphVars>>
    /\ UNCHANGED parserVars

\* a focus button rendered whether or not a table is selected
ToggleFocusUnselected ==
    /\ pc = "idle"
    /\ isFocused' = ~isFocused
    /\ UNCHANGED <<schemaData, selectedTable, analysisVars, controlVars, graphVars>>
    /\ UNCHANGED parserVars

\* the focus button, rendered while a table is selected
ToggleFocus ==
    /\ pc = "idle"
    /\ selectedTable # None
    /\ isFocused' = ~isFocused
    /\ UNCHANGED <<schemaData, selectedTable, analysisVars, controlVars, graphVars>>
    /\ UNCHANGED parserVars

\* the App with Rails schemas: no handler runs while a call of parseSchema is
\* under way, and that call never raises
NextApp ==
    \/ ParseSchema
    \/ RailsScan
    \/ RailsFinish
    \/ Mount
    \/ ProcessFile
    \/ InstallFile
    \/ SelectTable
    \/ ToggleFocus

\* the component after construction, its mount effect about to run
SpecApp ==
    InitWith({ExampleSchema}, {<<"example", ".", "rb">>}) /\ [][NextApp]_vars

-----------------------------------------------------------------------------
(* The App component: the analysis of the schema *)

\* a JavaScript value as JSON.parse gives it: its kind and what it holds
Undefined == <<"undefined", <<>>>>
JsNull == <<"null", <<>>>>
Str(chars) == <<"string", chars>>
Num(digits) == <<"number", digits>>
Arr(items) == <<"array", items>>
Obj(fields) == <<"object", fields>>

\* the values a field of the response is drawn from
FieldValues ==
    {Undefined, JsNull, Str(<<>>), Str(<<"text">>), Num(<<"42">>),
     Arr(<<>>), Arr(<<"issue">>)}

\* the values JSON.parse returns: null, a number, or an object with the fields
\* summary, potentialIssues and suggestions, in this order
JsonValues ==
    {JsNull, Num(<<"42">>)}
        \cup {Obj(<<s, p, g>>) : s \in FieldValues, p \in FieldValues,
                                 g \in FieldValues}

\* a call of the Gemini API that gives no report: no API key, a network or
\* credential error, a response without text, a text that is no JSON
Failures == {<<"no_key">>, <<"rejected">>, <<"empty">>, <<"unparseable">>}

\* a call whose response text is JSON
Responses == {<<"json", parsed>> : parsed \in JsonValues}

\* a response with every field in its place
WellFormed ==
    <<"json", Obj(<<Str(<<"text">>), Arr(<<"issue">>), Arr(<<>>)>>)>>

\* what a call of the Gemini API can come to while the App is studied
Outcomes == Failures \cup {WellFormed}

\* parsed.summary and its like: the i-th field of an object, undefined on a
\* value without the field
Field(parsed, i) == IF parsed[1] = "object" THEN parsed[2][i] ELSE Undefined

\* the truthiness of JavaScript
IsTruthy(v) ==
    CASE v[1] \in {"undefined", "null"} -> FALSE
      [] v[1] = "string" -> v[2] # <<>>
      [] v[1] = "number" -> v[2] # <<"0">>
      [] OTHER -> TRUE

IsArray(v) == v[1] = "array"

\* the report analyzeSchema builds from the parsed response of the call for
\* a schema content
ReportOf(schemaContent, parsed) ==
    [schema |-> schemaContent,
     summary |-> IF IsTruthy(Field(parsed, 1))
                 THEN Field(parsed, 1)
                 ELSE Str(<<"No summary provided.">>),
     potentialIssues |-> IF IsArray(Field(parsed, 2))
                         THEN Field(parsed, 2)
                         ELSE Arr(<<>>),
     suggestions |-> IF IsArray(Field(parsed, 3))
                     THEN Field(parsed, 3)
                     ELSE Arr(<<>>)]

\* analyzeSchema(schemaContent), settled: an async function turns every throw
\* of its body into the rejection of its promise; reading a property of null
\* throws inside the try block, whose catch block throws in turn
AnalyzeSchema(schemaContent, outcome) ==
    CASE outcome[1] = "no_key" ->
           [state |-> "rejected", value |-> None]
      [] outcome[1] = "rejected" ->
           [state |-> "rejected", value |-> None]
      [] outcome[1] = "empty" ->
           [state |-> "rejected", value |-> None]
      [] outcome[1] = "unparseable" ->
           [state |-> "rejected", value |-> None]
      [] outcome[1] = "json" /\ outcome[2] = JsNull ->
           [state |-> "rejected", value |-> None]
      [] outcome[1] = "json" /\ outcome[2] # JsNull ->
           [state |-> "fulfilled",
            value |-> Some(ReportOf(schemaContent, outcome[2]))]

\* the analysis state of the App as one value
AnalysisState(status, report, escaped) ==
    [analysisStatus |-> status, analysisReport |-> report, unhandled |-> escaped]

\* a handler that awaits the call outside of any try block
HandleAnalyzeSettledUncaught(st, promise) ==
    IF promise.state = "fulfilled"
    THEN [st EXCEPT !.analysisReport = promise.value,
                    !.analysisStatus = "SUCCESS"]
    ELSE [st EXCEPT !.unhandled = TRUE]

\* a handler that stores the report and leaves the status as it is
HandleAnalyzeSettledSilent(st, promise) ==
    IF promise.state = "fulfilled"
    THEN [st EXCEPT !.analysisReport = promise.value]
    ELSE [st EXCEPT !.analysisStatus = "ERROR"]

\* a handler that enters SUCCESS without storing the report
HandleAnalyzeSettledStatusOnly(st, promise) ==
    IF promise.state = "fulfilled"
    THEN [st EXCEPT !.analysisStatus = "SUCCESS"]
    ELSE [st EXCEPT !.analysisStatus = "ERROR"]

\* handleAnalyze after its await: the rest of the try block on fulfilment, the
\* catch block on rejection
HandleAnalyzeSettled(st, promise) ==
    IF promise.state = "fulfilled"
    THEN [st EXCEPT !.analysisReport = promise.value,
                    !.analysisStatus = "SUCCESS"]
    ELSE [st EXCEPT !.analysisStatus = "ERROR"]

\* a sidebar that keeps a button next to the spinner
AnalyzeControlWhileLoading ==
    \/ analysisStatus \in {"IDLE", "ERROR", "LOADING"}
    \/ analysisStatus = "SUCCESS" /\ analysisReport # None

\* the sidebar renders Start Analysis, Retry or Re-analyze
AnalyzeControl ==
    \/ analysisStatus \in {"IDLE", "ERROR"}
    \/ analysisStatus = "SUCCESS" /\ analysisReport # None

\* a click on the analyze control: handleAnalyze up to its await
HandleAnalyze ==
    /\ pc = "idle"
    /\ AnalyzeControl
    /\ schemaData # None
    /\ analysisStatus' = "LOADING"
    /\ pending' = Append(pending, schemaData[1].rawContent)
    /\ UNCHANGED <<schemaData, selectedTable, isFocused, analysisReport,
                   unhandled, response, controlVars, graphVars>>
    /\ UNCHANGED parserVars

\* one of the calls in flight settles and handleAnalyze resumes
SettleOf(O) ==
    /\ pc = "idle"
    /\ \E k \in 1..Len(pending), outcome \in O :
           LET st == HandleAnalyzeSettled(
                         AnalysisState(analysisStatus, analysisReport, unhandled),
                         AnalyzeSchema(pending[k], outcome))
           IN /\ analysisStatus' = st.analysisStatus
              /\ analysisReport' = st.analysisReport
              /\ unhandled' = st.unhandled
              /\ response' = Some(outcome)
              /\ pending' = SubSeq(pending, 1, k - 1)
                                \o SubSeq(pending, k + 1, Len(pending))
    /\ UNCHANGED <<schemaData, selectedTable, isFocused, controlVars, graphVars>>
    /\ UNCHANGED parserVars

Settle == SettleOf(Outcomes)

\* the files uploaded while the analysis is studied
AnalysisUploads == {FragRailsAuthors, FragRailsBooks}

UploadFile == ProcessFileOf(AnalysisUploads, UploadFilenames)

\* a callback that has started runs to its end
RunToCompletion ==
    ParseSchema \/ RailsScan \/ RailsFinish \/ Mount \/ InstallFile

NextAnalysis ==
    \/ ParseSchema
    \/ RailsScan
    \/ RailsFinish
    \/ Mount
    \/ UploadFile
    \/ InstallFile
    \/ HandleAnalyze
    \/ Settle

SpecAnalysis ==
    InitWith({ExampleSchema}, {<<"example", ".", "rb">>})
        /\ [][NextAnalysis]_vars

\* every call in flight settles, and the event loop runs its callbacks
SpecAnalysisFair ==
    SpecAnalysis /\ WF_vars(Settle) /\ WF_vars(RunToCompletion)

\* a call settles on any of the responses
SettleResponse == SettleOf(Failures \cup Responses)

NextResponse ==
    \/ ParseSchema
    \/ RailsScan
    \/ RailsFinish
    \/ Mount
    \/ HandleAnalyze
    \/ SettleResponse

\* the analysis of the example schema over every response of the Gemini call
SpecResponse ==
    InitWith({ExampleSchema}, {<<"example", ".", "rb">>})
        /\ [][NextResponse]_vars

-----------------------------------------------------------------------------
(* The App component: the ways a schema is loaded *)

\* the contents of the files picked: an empty file and a schema
FileContents == {<<>>, FragRailsAuthors}

LayoutTypes == {"FORCE", "TREE"}

SearchTerms == {"", "user"}

\* processFile: a FileReader starts to read the file picked or dropped
PickFile ==
    /\ pc = "idle"
    /\ reading = None
    /\ calls < MaxLoads
    /\ \E c \in FileContents : reading' = Some(c)
    /\ UNCHANGED <<layout, searchTerm, stored>>
    /\ UNCHANGED <<schemaData, selectedTable, isFocused, analysisVars, graphVars>>
    /\ UNCHANGED parserVars

\* reader.onload up to its call of parseSchema: an empty content ends the
\* callback, any other content is handed to the parser
ReaderOnload ==
    /\ pc = "idle"
    /\ reading # None
    /\ reading' = None
    /\ IF reading[1] = <<>>
       THEN UNCHANGED <<content, filename, pc>>
       ELSE /\ content' = reading[1]
            /\ filename' \in UploadFilenames
            /\ pc' = "start"
    /\ UNCHANGED <<dialect, units, idx, tables, relationships, currentTable,
                   result, calls, memo>>
    /\ UNCHANGED <<layout, searchTerm, stored>>
    /\ UNCHANGED <<schemaData, selectedTable, isFocused, analysisVars, graphVars>>

\* saveSchemaToStorage
SaveSchemaToStorage ==
    /\ pc = "idle"
    /\ schemaData # None
    /\ schemaData[1].rawContent # <<>>
    /\ stored' = Some(schemaData[1].rawContent)
    /\ UNCHANGED <<layout, searchTerm, reading>>
    /\ UNCHANGED <<schemaData, selectedTable, isFocused, analysisVars, graphVars>>
    /\ UNCHANGED parserVars

\* loadSchemaFromStorage up to its call of parseSchema, which gets no filename
LoadSchemaFromStorage ==
    /\ pc = "idle"
    /\ calls < MaxLoads
    /\ stored # None
    /\ stored[1] # <<>>
    /\ content' = stored[1]
    /\ filename' = <<>>
    /\ pc' = "start"
    /\ UNCHANGED <<dialect, units, idx, tables, relationships, currentTable,
                   result, calls, memo>>
    /\ UNCHANGED appVars

\* a click on a layout button
SetLayout ==
    /\ pc = "idle"
    /\ \E type \in LayoutTypes \ {layout} : layout' = type
    /\ UNCHANGED <<searchTerm, reading, stored>>
    /\ UNCHANGED <<schemaData, selectedTable, isFocused, analysisVars, graphVars>>
    /\ UNCHANGED parserVars

\* typing into the search box
SetSearchTerm ==
    /\ pc = "idle"
    /\ \E term \in SearchTerms \ {searchTerm} : searchTerm' = term
    /\ UNCHANGED <<layout, reading, stored>>
    /\ UNCHANGED <<schemaData, selectedTable, isFocused, analysisVars, graphVars>>
    /\ UNCHANGED parserVars

NextLoad ==
    \/ ParseSchema
    \/ RailsScan
    \/ RailsFinish
    \/ Mount
    \/ PickFile
    \/ ReaderOnload
    \/ SaveSchemaToStorage
    \/ LoadSchemaFromStorage
    \/ InstallFile
    \/ SelectTable
    \/ ToggleFocus
    \/ HandleAnalyze
    \/ Settle
    \/ SetLayout
    \/ SetSearchTerm

\* the App with its file input, its storage buttons and its graph controls
SpecLoad ==
    InitWith({ExampleSchema}, {<<"example", ".", "rb">>}) /\ [][NextLoad]_vars

-----------------------------------------------------------------------------
(* The SchemaGraph component *)

\* nodesRef.current = data.tables.map(...)
GraphNodes(d) ==
    [k \in 1..Len(d.tables) |->
        [id |-> d.tables[k].id, type |-> "table", data |-> d.tables[k],
         level |-> 0]]

\* nodes.find(n => n.id === id) finds a node
FindsNode(nodes, id) == \E n \in 1..Len(nodes) : nodes[n].id = id

\* a filter that looks at the source of a link only
GraphLinksBySource(d, nodes) ==
    SelectSeq([j \in 1..Len(d.relationships) |->
                  [source |-> d.relationships[j].source,
                   target |-> d.relationships[j].target,
                   column |-> d.relationships[j].column]],
              LAMBDA l : FindsNode(nodes, l.source))

\* linksRef.current = data.relationships.map(...).filter(...)
GraphLinks(d, nodes) ==
    SelectSeq([j \in 1..Len(d.relationships) |->
                  [source |-> d.relationships[j].source,
                   target |-> d.relationships[j].target,
                   column |-> d.relationships[j].column]],
              LAMBDA l : FindsNode(nodes, l.source) /\ FindsNode(nodes, l.target))

\* the data effect of SchemaGraph: nodes and links are built from the data
\* prop, which is the activeData of the App
RenderGraph ==
    /\ pc = "idle"
    /\ schemaData # None
    /\ graphState = "unmounted"
    /\ LET data == ActiveData(schemaData, isFocused, selectedTable)[1]
       IN /\ nodesRef' = GraphNodes(data)
          /\ linksRef' = GraphLinks(data, nodesRef')
    /\ passes' = 0
    /\ graphState' = "drawn"
    /\ UNCHANGED <<schemaData, selectedTable, isFocused, analysisVars,
                   controlVars>>
    /\ UNCHANGED parserVars

\* idToNode.get(id): the index of the node the map holds for the id, which is
\* the last node set under it; 0 when there is none
IdToNode(nodes, id) ==
    LET ks == {k \in 1..Len(nodes) : nodes[k].id = id}
    IN IF ks = {} THEN 0 ELSE CHOOSE k \in ks : \A j \in ks : j <= k

\* a callback that raises the source only when it lies below the target
RelaxLinkBelow(acc, l) ==
    LET s == IdToNode(acc.nodes, l.source)
        t == IdToNode(acc.nodes, l.target)
    IN IF s # 0 /\ t # 0 /\ acc.nodes[s].level < acc.nodes[t].level
       THEN [nodes |-> [acc.nodes EXCEPT ![s].level = acc.nodes[t].level + 1],
             changed |-> TRUE]
       ELSE acc

\* the callback of links.forEach in the level loop; acc is [nodes, changed]
RelaxLink(acc, l) ==
    LET s == IdToNode(acc.nodes, l.source)
        t == IdToNode(acc.nodes, l.target)
    IN IF s # 0 /\ t # 0 /\ acc.nodes[s].level <= acc.nodes[t].level
       THEN [nodes |-> [acc.nodes EXCEPT ![s].level = acc.nodes[t].level + 1],
             changed |-> TRUE]
       ELSE acc

\* links.forEach from the j-th link on
RECURSIVE LinksForEach(_, _, _)
LinksForEach(acc, links, j) ==
    IF j > Len(links) THEN acc
    ELSE LinksForEach(RelaxLink(acc, links[j]), links, j + 1)

\* the layout effect with layout TREE up to its level loop, which it reaches
\* when there is a node: every level is set to 0
TreeLayout ==
    /\ pc = "idle"
    /\ layout = "TREE"
    /\ graphState = "drawn"
    /\ Len(nodesRef) > 0
    /\ nodesRef' = [k \in 1..Len(nodesRef) |-> [nodesRef[k] EXCEPT !.level = 0]]
    /\ passes' = 0
    /\ pc' = "levels"
    /\ UNCHANGED <<content, filename, dialect, units, idx, tables, relationships,
                   currentTable, result, calls, memo>>
    /\ UNCHANGED <<schemaData, selectedTable, isFocused, analysisVars,
                   controlVars, linksRef, graphState>>

\* one pass of the level loop, its break and its loop test
TreePass ==
    /\ pc = "levels"
    /\ LET acc == LinksForEach([nodes |-> nodesRef, changed |-> FALSE],
                               linksRef, 1)
           exit == ~acc.changed \/ passes + 1 >= Len(nodesRef)
       IN /\ nodesRef' = acc.nodes
          /\ passes' = passes + 1
          /\ pc' = IF exit THEN "idle" ELSE "levels"
          /\ graphState' = IF exit THEN "laid" ELSE graphState
    /\ UNCHANGED <<content, filename, dialect, units, idx, tables, relationships,
                   currentTable, result, calls, memo>>
    /\ UNCHANGED <<schemaData, selectedTable, isFocused, analysisVars,
                   controlVars, linksRef>>

\* schemas for the graph: tables out of users, posts and comments, one of
\* them declared twice, and up to MaxLinks add_foreign_key lines
TableLine(id) == <<"create_table", DQ, id, DQ, "do", NL, "end", NL>>

FkLine(s, t) == <<"add_foreign_key", DQ, s, DQ, ",", DQ, t, DQ, NL>>

MaxLinks == 3

GraphTables ==
    {<<>>,
     TableLine("users") \o TableLine("posts"),
     TableLine("users") \o TableLine("posts") \o TableLine("comments"),
     TableLine("users") \o TableLine("users") \o TableLine("posts")}

GraphFks ==
    {FkLine("users", "posts"), FkLine("posts", "comments"),
     FkLine("comments", "users"), FkLine("posts", "users"),
     FkLine("users", "comments"), FkLine("users", "users"),
     FkLine("posts", "authors")}

GraphContents ==
    {ts \o fks : ts \in GraphTables, fks \in ContentsOf(GraphFks, MaxLinks)}

NextGraph ==
    \/ ParseSchema
    \/ RailsScan
    \/ RailsFinish
    \/ Mount
    \/ RenderGraph
    \/ SetLayout
    \/ TreeLayout
    \/ TreePass

\* the App mounted on a schema, its graph drawn and laid out
SpecGraph ==
    InitWith(GraphContents, {<<"schema", ".", "rb">>}) /\ [][NextGraph]_vars

-----------------------------------------------------------------------------
(* The inference pass of parseRails *)

\* two relationships between the same ordered pair of tables
SamePair(r1, r2) == r1.source = r2.source /\ r1.target = r2.target

\* the step in which parseRails runs its inference pass and returns
InferenceStep == pc = "scan" /\ dialect = "rails" /\ pc' = "done"

\* C11: every relationship the inference pass appends carries its column and
\* has a (source, target) pair that no relationship before it in the list has,
\* be that an explicit one or one inferred earlier; so the pass adds at most
\* one edge per ordered pair of tables.
C11_InferredPairIsNew ==
    [][InferenceStep =>
        /\ Len(relationships') >= Len(relationships)
        /\ \A j \in (Len(relationships) + 1)..Len(relationships') :
               /\ relationships'[j].column # None
               /\ \A i \in 1..(j - 1) :
                      ~SamePair(relationships'[i], relationships'[j])]_vars

\* a table with two author_id columns got one inferred edge, not two
C11_Witness ==
    /\ Returned
    /\ dialect = "rails"
    /\ \E k \in 1..Len(tables) :
           /\ Cardinality({c \in 1..Len(tables[k].columns) :
                               tables[k].columns[c].name = "author_id"}) = 2
           /\ Cardinality({j \in 1..Len(result[1].relationships) :
                               /\ result[1].relationships[j].source = tables[k].id
                               /\ result[1].relationships[j].column
                                      = Some("author_id")}) = 1

-----------------------------------------------------------------------------
(* Dangling edges *)

TableIds(d) == {d.tables[k].id : k \in 1..Len(d.tables)}

\* an edge one of whose ends is not a table of the model
Dangling(d, r) == r.source \notin TableIds(d) \/ r.target \notin TableIds(d)

\* C12: an explicit relationship statement (an add_foreign_key line of a Rails
\* schema, an ALTER TABLE ... ADD CONSTRAINT ... FOREIGN KEY statement of an SQL
\* script) whose source or target is not among the parsed tables is still a
\* relationship of the returned model.
C12_DanglingRetained ==
    Returned =>
        /\ dialect = "rails" =>
               \A n \in 1..Len(units) :
                   LET line == Trim(units[n])
                       fk == RailsForeignKeyMatch(line)
                       edge == [source |-> fk[1], target |-> fk[2],
                                column |-> None]
                   IN (/\ RailsCreateTableMatch(line) = NoMatch
                       /\ fk # NoMatch
                       /\ Dangling(result[1], edge))
                          => HasRelationship(result[1], fk[1], fk[2], None)
        /\ dialect = "sql" =>
               \A n \in 1..Len(units) :
                   LET fk == SqlAlterMatch(Trim(units[n]))
                       edge == [source |-> fk[1], target |-> fk[3],
                                column |-> Some(fk[2])]
                   IN (fk # NoMatch /\ Dangling(result[1], edge))
                          => HasRelationship(result[1], fk[1], fk[3], Some(fk[2]))

\* a Rails schema was returned with an edge to a table it does not declare
C12_Witness ==
    /\ Returned
    /\ dialect = "rails"
    /\ \E j \in 1..Len(result[1].relationships) :
           /\ result[1].relationships[j].column = None
           /\ result[1].relationships[j].target \notin TableIds(result[1])

-----------------------------------------------------------------------------
(* Naive pluralization *)

\* C13: in a returned Rails model, a column author_id of table T yields the
\* inferred relationship (T, "authors", "author_id") when a table authors exists
\* and no T -> authors relationship was stated, and (T, "author", "author_id")
\* when authors is absent, author exists and no T -> author relationship was
\* stated.
C13_NaivePluralization ==
    (Returned /\ dialect = "rails") =>
        \A k \in 1..Len(tables) : \A c \in 1..Len(tables[k].columns) :
            tables[k].columns[c].name = "author_id" =>
                LET T == tables[k].id
                    ids == TableIds(result[1])
                IN /\ ("authors" \in ids
                        /\ ~HasRelationship(result[1], T, "authors", None))
                       => HasRelationship(result[1], T, "authors",
                                          Some("author_id"))
                   /\ ("authors" \notin ids /\ "author" \in ids
                        /\ ~HasRelationship(result[1], T, "author", None))
                       => HasRelationship(result[1], T, "author",
                                          Some("author_id"))

\* the candidate <singular>s, <singular>es, <singular> of highest priority that
\* is the id of a table
PriorityTarget(ids, singular) ==
    IF Concat(singular, "s") \in ids THEN Concat(singular, "s")
    ELSE IF Concat(singular, "es") \in ids THEN Concat(singular, "es")
    ELSE singular

\* C14: the target of every inferred relationship of a returned Rails model is
\* the candidate of highest priority among the declared tables (<singular>s,
\* then <singular>es, then <singular>), in whatever order the tables were
\* declared.
C14_CandidatePriority ==
    (Returned /\ dialect = "rails") =>
        \A j \in 1..Len(result[1].relationships) :
            LET r == result[1].relationships[j]
            IN r.column # None =>
                   r.target = PriorityTarget(TableIds(result[1]),
                                             StripSuffix(r.column[1], "_id"))

-----------------------------------------------------------------------------
(* The end-to-end Rails scenario *)

\* the names of the columns of table id of the model that end in _id
IdColumns(d, id) ==
    UNION {{d.tables[k].columns[c].name :
               c \in {n \in 1..Len(d.tables[k].columns) :
                         EndsWith(d.tables[k].columns[n].name, "_id")}} :
           k \in {n \in 1..Len(d.tables) : d.tables[n].id = id}}

\* the relationships of the model that come from explicit statements
ExplicitEdges(d) == SelectSeq(d.relationships, LAMBDA r : r.column = None)

\* users, posts with user_id, comments with user_id and post_id, and the two
\* statements posts -> users and comments -> posts
ExampleScenario(d) ==
    /\ Len(d.tables) = 3
    /\ TableIds(d) = {"users", "posts", "comments"}
    /\ IdColumns(d, "users") = {}
    /\ IdColumns(d, "posts") = {"user_id"}
    /\ IdColumns(d, "comments") = {"user_id", "post_id"}
    /\ Len(ExplicitEdges(d)) = 2
    /\ HasRelationship(d, "posts", "users", None)
    /\ HasRelationship(d, "comments", "posts", None)

\* C15: the Rails schema with tables users, posts (user_id) and comments
\* (user_id, post_id) and the explicit statements posts -> users and
\* comments -> posts returns exactly three relationships: the two explicit ones
\* and the inferred edge comments -> users with column user_id.
C15_EndToEnd ==
    (Returned /\ dialect = "rails" /\ ExampleScenario(result[1])) =>
        /\ Len(result[1].relationships) = 3
        /\ HasRelationship(result[1], "comments", "users", Some("user_id"))

\* the scenario was parsed and returned
C15_Witness ==
    /\ Returned
    /\ dialect = "rails"
    /\ ExampleScenario(result[1])
    /\ IncludesSeq(content, FragRailsExample)

-----------------------------------------------------------------------------
(* Output ordering *)

\* the ids of the create_table lines, in the order of the lines
DeclaredIds(lines) ==
    LET decl == SelectSeq(lines,
                          LAMBDA l : RailsCreateTableMatch(Trim(l)) # NoMatch)
    IN [k \in 1..Len(decl) |-> RailsCreateTableMatch(Trim(decl[k]))[1]]

\* the edges of the add_foreign_key lines, in the order of the lines
StatedEdges(lines) ==
    LET stmt == SelectSeq(lines,
                          LAMBDA l : /\ RailsCreateTableMatch(Trim(l)) = NoMatch
                                     /\ RailsForeignKeyMatch(Trim(l)) # NoMatch)
    IN [k \in 1..Len(stmt) |->
           [source |-> RailsForeignKeyMatch(Trim(stmt[k]))[1],
            target |-> RailsForeignKeyMatch(Trim(stmt[k]))[2],
            column |-> None]]

\* C19: when parseRails returns, the tables of the model are those of the
\* create_table lines in the order of the lines, and its relationships are the
\* explicit ones as the scan left them, in the order of their statements,
\* followed by the inferred ones; the inference pass removes, reorders and
\* alters none of the explicit relationships.
C19_OutputOrdering ==
    [][InferenceStep =>
        LET d == result'[1]
            n == Len(relationships)
        IN /\ [k \in 1..Len(d.tables) |-> d.tables[k].id] = DeclaredIds(units)
           /\ relationships = StatedEdges(units)
           /\ Len(d.relationships) >= n
           /\ SubSeq(d.relationships, 1, n) = relationships
           /\ \A j \in (n + 1)..Len(d.relationships) :
                  d.relationships[j].column # None]_vars

\* a returned Rails model with two tables or more whose relationships are an
\* explicit one followed by an inferred one
C19_Witness ==
    /\ Returned
    /\ dialect = "rails"
    /\ Len(result[1].tables) >= 2
    /\ Len(result[1].relationships) >= 2
    /\ result[1].relationships[1].column = None
    /\ result[1].relationships[Len(result[1].relationships)].column # None

-----------------------------------------------------------------------------
(* Single-table declarations *)

ColumnNames(t) == [c \in 1..Len(t.columns) |-> t.columns[c].name]

\* the model holds one table, whose columns are those of cols in their order
OneTableOf(d, cols) ==
    /\ Len(d.tables) = 1
    /\ ColumnNames(d.tables[1]) = [k \in 1..Len(cols) |-> cols[k].name]

\* C16: no call raises, and a declaration that lacks its closing token at the
\* end of the input (end in a Rails schema, } in a Prisma schema, the closing
\* parenthesis in an SQL script) returns its table with all the columns
\* declared before the end of the input.
C16_UnterminatedBlock ==
    /\ pc # "raised"
    /\ Returned =>
           \A d \in {"rails", "prisma", "sql"} : \A cols \in ColumnSeqs(d) :
               (dialect = d /\ content = Declaration(d, cols, FALSE))
                   => OneTableOf(result[1], cols)

\* C17: in each of the four dialects a well-formed declaration of one table
\* with N column declarations returns exactly one table with exactly those N
\* columns in the order of the source.
C17_WellFormedTable ==
    Returned =>
        \A d \in Dialects : \A cols \in ColumnSeqs(d) :
            (dialect = d /\ content = Declaration(d, cols, TRUE))
                => OneTableOf(result[1], cols)

\* C18: when parseSQL returns, a column <singular>_id of table s some of whose
\* candidates <singular>s, <singular>es, <singular> are tables, with no
\* relationship from s to any of them among those of the statements, has
\* yielded an inferred relationship (s, t, <singular>_id) to such a table t.
C18_SqlInference ==
    [][(pc = "scan" /\ dialect = "sql" /\ pc' = "done") =>
        \A k \in 1..Len(tables) : \A c \in 1..Len(tables[k].columns) :
            LET col == tables[k].columns[c].name
                s == tables[k].id
                singular == StripSuffix(col, "_id")
                found == {Concat(singular, "s"), Concat(singular, "es"),
                          singular} \cap TableIds(result'[1])
            IN (/\ EndsWith(col, "_id")
                /\ found # {}
                /\ \A j \in 1..Len(relationships) :
                       ~(/\ relationships[j].source = s
                         /\ relationships[j].target \in found))
                   => \E t \in found :
                          HasRelationship(result'[1], s, t, Some(col))]_vars

-----------------------------------------------------------------------------
(* Focus mode *)

\* the table selected while the focus is on
FocusedOn(T) == isFocused /\ selectedTable # None /\ selectedTable[1].id = T

\* C20: with the focus on and table T selected, the data handed to the graph
\* holds exactly the tables whose id is T or an end of a relationship that has
\* T as source or target, in the order of the schema, and exactly the
\* relationships that have T as source or target; otherwise it is the schema
\* itself.
C20_FocusMode ==
    schemaData # None =>
        LET full == schemaData[1]
            shown == ActiveData(schemaData, isFocused, selectedTable)[1]
        IN IF isFocused /\ selectedTable # None
           THEN LET T == selectedTable[1].id
                    touching == {j \in 1..Len(full.relationships) :
                                    \/ full.relationships[j].source = T
                                    \/ full.relationships[j].target = T}
                    ends == {full.relationships[j].source : j \in touching}
                                \cup {full.relationships[j].target : j \in touching}
                IN /\ shown.tables
                        = SelectSeq(full.tables,
                                    LAMBDA t : t.id = T \/ t.id \in ends)
                   /\ shown.relationships
                        = SelectSeq(full.relationships,
                                    LAMBDA r : r.source = T \/ r.target = T)
                   /\ shown.rawContent = full.rawContent
           ELSE shown = full

\* the focus is on users in the example schema extended with an unrelated
\* table: the graph gets users, posts and comments and not books
C20_Witness ==
    /\ FocusedOn("users")
    /\ schemaData # None
    /\ "books" \in TableIds(schemaData[1])
    /\ LET shown == ActiveData(schemaData, isFocused, selectedTable)[1]
       IN /\ TableIds(shown) = {"users", "posts", "comments"}
          /\ Len(shown.relationships) = 2
          /\ Len(schemaData[1].relationships) = 3

-----------------------------------------------------------------------------
(* The cursor of the Rails scanner *)

\* the kinds of line the Rails scanner tells apart
IsCreateTableLine(line) == RailsCreateTableMatch(Trim(line)) # NoMatch
IsBareEnd(line) == Trim(line) = <<"end">>
IsColumnLine(line) ==
    /\ ~IsCreateTableLine(line)
    /\ ~IsBareEnd(line)
    /\ RailsColumnMatch(Trim(line)) # NoMatch

\* the create_table lines among the first n lines
CreateLines(lines, n) == {k \in 1..n : IsCreateTableLine(lines[k])}

\* the table that is open after the first n lines: the number of the create_table
\* line that no bare end line has followed, counted among the create_table
\* lines; 0 when no table is open
OpenAfter(lines, n) ==
    LET opens == CreateLines(lines, n)
        last == Max(opens)
    IN IF opens = {} THEN 0
       ELSE IF \E e \in (last + 1)..n : IsBareEnd(lines[e]) THEN 0
       ELSE Cardinality(opens)

\* a step of the Rails scanner over one line
RailsScanStep == pc = "scan" /\ dialect = "rails" /\ idx' = idx + 1

\* C21: in the Rails scanner a column line appends one column to the table
\* opened by the last create_table line, and only when no bare end line has
\* followed that line; a column line read while no table is open changes no
\* table; a bare end line closes the open table and changes no table; a
\* create_table line adds an empty table and moves the cursor to it.
C21_RailsCursor ==
    [][RailsScanStep =>
        LET line == units[idx + 1]
            open == OpenAfter(units, idx)
        IN /\ IsColumnLine(line) =>
                  /\ currentTable' = open
                  /\ Len(tables') = Len(tables)
                  /\ \A k \in 1..Len(tables) :
                         IF k = open
                         THEN /\ tables'[k].id = tables[k].id
                              /\ Len(tables'[k].columns) = Len(tables[k].columns) + 1
                              /\ SubSeq(tables'[k].columns, 1, Len(tables[k].columns))
                                     = tables[k].columns
                              /\ tables'[k].columns[Len(tables'[k].columns)].name
                                     = RailsColumnMatch(Trim(line))[2]
                         ELSE tables'[k] = tables[k]
           /\ (IsBareEnd(line) /\ ~IsCreateTableLine(line)) =>
                  /\ currentTable' = 0
                  /\ tables' = tables
           /\ IsCreateTableLine(line) =>
                  /\ tables' = Append(tables, [id |-> RailsCreateTableMatch(Trim(line))[1],
                                               columns |-> <<>>])
                  /\ currentTable' = Len(tables')]_vars

\* a column line was read after the end of the only table and left it empty
C21_Witness ==
    /\ pc = "scan"
    /\ dialect = "rails"
    /\ idx >= 3
    /\ IsColumnLine(units[idx])
    /\ OpenAfter(units, idx - 1) = 0
    /\ Len(tables) = 1
    /\ tables[1].columns = <<>>

-----------------------------------------------------------------------------
(* Explicit foreign keys of a Rails schema *)

\* an add_foreign_key "s", "t" line
IsForeignKeyLine(line) ==
    /\ ~IsCreateTableLine(line)
    /\ RailsForeignKeyMatch(Trim(line)) # NoMatch

\* C22: a line add_foreign_key "s", "t" read by the Rails scanner appends the
\* relationship (source s, target t) without a column, with a table open or
\* not, and leaves the cursor and every table as they were.
C22_ExplicitForeignKey ==
    [][(RailsScanStep /\ IsForeignKeyLine(units[idx + 1])) =>
        LET fk == RailsForeignKeyMatch(Trim(units[idx + 1]))
        IN /\ relationships'
                = Append(relationships,
                         [source |-> fk[1], target |-> fk[2], column |-> None])
           /\ currentTable' = currentTable
           /\ tables' = tables]_vars

\* a foreign key line was read while a table was open
C22_Witness ==
    /\ pc = "scan"
    /\ dialect = "rails"
    /\ idx >= 2
    /\ IsForeignKeyLine(units[idx])
    /\ currentTable # 0
    /\ OpenAfter(units, idx - 1) # 0
    /\ relationships # <<>>
    /\ relationships[Len(relationships)]
           = [source |-> "posts", target |-> "users", column |-> None]

-----------------------------------------------------------------------------
(* Tables after the end of their declaration *)

\* the opening and closing lines of the block dialects
IsOpener(d, line) ==
    IF d = "rails" THEN IsCreateTableLine(line)
    ELSE PrismaModelMatch(Trim(line)) # NoMatch

IsCloser(d, line) ==
    /\ ~IsOpener(d, line)
    /\ Trim(line) = (IF d = "rails" THEN <<"end">> ELSE <<"}">>)

\* the tables, numbered by their opening lines, whose closing token is among
\* the first n lines
ClosedTables(d, lines, n) ==
    {Cardinality({o \in 1..e : IsOpener(d, lines[o])}) :
        e \in {e \in 1..n : IsCloser(d, lines[e])}} \ {0}

\* C23: in the Rails and Prisma scanners a table whose closing token has been
\* read is left as it is by every later line, and the pass that runs after the
\* last line returns the tables as the scan left them and only appends to the
\* relationships.
C23_TablesFrozen ==
    [][(pc = "scan" /\ dialect \in {"rails", "prisma"}) =>
        /\ idx' = idx + 1 =>
               \A k \in ClosedTables(dialect, units, idx) :
                   /\ k <= Len(tables)
                   /\ k <= Len(tables')
                   /\ tables'[k] = tables[k]
        /\ pc' = "done" =>
               /\ tables' = tables
               /\ result'[1].tables = tables
               /\ Len(relationships') >= Len(relationships)
               /\ SubSeq(relationships', 1, Len(relationships)) = relationships]_vars

\* a Prisma line that reads as a field came after the closing brace of the only
\* model and the model kept its two fields
C23_Witness ==
    /\ pc = "scan"
    /\ dialect = "prisma"
    /\ idx >= 2
    /\ 1 \in ClosedTables("prisma", units, idx - 1)
    /\ ~IsOpener("prisma", units[idx])
    /\ ~PrismaSkipped(Trim(units[idx]))
    /\ Len(Trim(units[idx])) >= 2
    /\ Len(tables) = 1
    /\ Len(tables[1].columns) = 2

-----------------------------------------------------------------------------
(* The clauses of a CREATE TABLE body *)

MaxClauses == 2

\* clauses as they stand between the commas of a body
SqlClauseTexts ==
    {<<"id", "INT", "PRIMARY", "KEY">>,
     <<DQ, "name", DQ, "VARCHAR", "(", "255", ")">>,
     <<"FOREIGN", "KEY", "(", "user_id", ")", "REFERENCES", "users",
       "(", "id", ")">>,
     <<"CONSTRAINT", "fk_posts_users", "FOREIGN", "KEY", "(", "user_id", ")",
       "REFERENCES", "users">>,
     <<"PRIMARY", "KEY", "(", "id", ")">>,
     <<"primary_tag", "TEXT">>,
     <<"body", "TEXT", NL, WS, "NOT", "NULL">>}

ClauseSeqs == UNION {[1..n -> SqlClauseTexts] : n \in 0..MaxClauses}

RECURSIVE JoinClauses(_)
JoinClauses(cls) ==
    IF cls = <<>> THEN <<>>
    ELSE IF Len(cls) = 1 THEN <<NL, WS>> \o cls[1]
    ELSE <<NL, WS>> \o cls[1] \o <<",">> \o JoinClauses(Tail(cls))

\* CREATE TABLE posts ( clause, ..., clause );
ClauseStatement(cls) ==
    <<"CREATE", "TABLE", "posts", "(">> \o JoinClauses(cls)
        \o <<NL, ")", ";", NL>>

ClauseContents == {ClauseStatement(cls) : cls \in ClauseSeqs}

NextSql == ParseSchema \/ SqlScan \/ SqlFinish

SpecClauses ==
    InitWith(ClauseContents, {<<"db", ".", "sql">>}) /\ [][NextSql]_vars

\* the three kinds of clause
IsForeignKeyClause(cl) == SqlInlineFkMatch(cl) # NoMatch

BeginsWithKeyword(cl) == StartsWithKeyword(cl)

\* an identifier, quoted or not, followed by a type token
IsColumnShape(cl) ==
    LET nm == QuotedName(cl, 1)
    IN nm # NoMatch /\ IsWord(TokAt(cl, nm[2]))

IsColumnClause(cl) ==
    ~IsForeignKeyClause(cl) /\ ~BeginsWithKeyword(cl) /\ IsColumnShape(cl)

ColumnOfClause(cl) ==
    LET nm == QuotedName(cl, 1)
    IN [name |-> nm[1], type |-> cl[nm[2]],
        details |-> Some(Trim(SubSeq(cl, nm[2] + 1, Len(cl))))]

RelationshipOfClause(source, cl) ==
    LET fk == SqlInlineFkMatch(cl)
    IN [source |-> source, target |-> fk[2], column |-> Some(fk[1])]

RECURSIVE ColumnsOfClauses(_)
ColumnsOfClauses(cls) ==
    IF cls = <<>> THEN <<>>
    ELSE (IF IsColumnClause(Head(cls)) THEN <<ColumnOfClause(Head(cls))>>
          ELSE <<>>) \o ColumnsOfClauses(Tail(cls))

RECURSIVE RelationshipsOfClauses(_, _)
RelationshipsOfClauses(source, cls) ==
    IF cls = <<>> THEN <<>>
    ELSE (IF IsForeignKeyClause(Head(cls))
          THEN <<RelationshipOfClause(source, Head(cls))>>
          ELSE <<>>) \o RelationshipsOfClauses(source, Tail(cls))

\* C24: the body of a CREATE TABLE statement is read clause by clause: a clause
\* that matches FOREIGN KEY (c) REFERENCES t gives the relationship (table, t, c)
\* and no column; a clause that begins with PRIMARY, FOREIGN or CONSTRAINT gives
\* no column; every other clause made of an identifier and a type token gives
\* the column of that name and type with the rest of the clause as details.
C24_ClauseClassification ==
    Returned =>
        \A cls \in ClauseSeqs :
            content = ClauseStatement(cls) =>
                /\ result[1].tables
                     = <<[id |-> "posts", columns |-> ColumnsOfClauses(cls)]>>
                /\ result[1].relationships = RelationshipsOfClauses("posts", cls)

-----------------------------------------------------------------------------
(* ALTER TABLE statements *)

\* the statement of FragSqlAlter with the constraint on a line of its own
FragSqlAlterDump ==
    <<"ALTER", "TABLE", "posts", NL,
      WS, "ADD", "CONSTRAINT", "fk_posts_users",
      "FOREIGN", "KEY", "(", "user_id", ")", "REFERENCES", "users",
      "(", "id", ")", ";", NL>>

\* the same statement with one part per line
FragSqlAlterLines ==
    <<"ALTER", "TABLE", "posts", NL,
      WS, "ADD", "CONSTRAINT", "fk_posts_users", NL,
      WS, "FOREIGN", "KEY", "(", "user_id", ")", NL,
      WS, "REFERENCES", "users", "(", "id", ")", ";", NL>>

AlterFrags ==
    {FragSqlUsers, FragSqlPosts, FragSqlAlter, FragSqlAlterDump,
     FragSqlAlterLines}

AlterContents == ContentsOf(AlterFrags, MaxFrags)

SpecAlter ==
    InitWith(AlterContents, {<<"db", ".", "sql">>}) /\ [][NextSql]_vars

\* a statement without its blanks and line breaks
NoSpace(l) == SelectSeq(l, LAMBDA tok : ~IsSpace(tok))

\* ALTER TABLE s ... ADD CONSTRAINT ... FOREIGN KEY (c) REFERENCES t with one
\* foreign key clause: <<s, c, t>>, or NoMatch for any other statement
AlterForm(statement) ==
    LET l == NoSpace(statement)
        s == QuotedName(l, 3)
        adds == IF s = NoMatch THEN {}
                ELSE {a \in s[2]..Len(l) :
                         UpperAt(l, a) = "ADD" /\ UpperAt(l, a + 1) = "CONSTRAINT"}
        fks == {f \in 1..Len(l) : SqlForeignKeyAt(l, f) # NoMatch}
    IN IF /\ UpperAt(l, 1) = "ALTER"
          /\ UpperAt(l, 2) = "TABLE"
          /\ adds # {}
          /\ Cardinality(fks) = 1
          /\ \A f \in fks : f > Min(adds) + 1
       THEN LET fk == SqlForeignKeyAt(l, Min(fks)) IN <<s[1], fk[1], fk[2]>>
       ELSE NoMatch

\* a step of the SQL scanner over one statement
SqlScanStep == pc = "scan" /\ dialect = "sql" /\ idx' = idx + 1

\* C25: a statement ALTER TABLE s ... ADD CONSTRAINT ... FOREIGN KEY (c)
\* REFERENCES t read by the SQL scanner appends exactly the relationship
\* (source s, target t, column c), whatever tables were declared before it or
\* are declared after it, and adds no table.
C25_AlterTableForeignKey ==
    [][(SqlScanStep /\ AlterForm(units[idx + 1]) # NoMatch) =>
        LET fk == AlterForm(units[idx + 1])
        IN /\ relationships'
                = Append(relationships,
                         [source |-> fk[1], target |-> fk[3],
                          column |-> Some(fk[2])])
           /\ tables' = tables]_vars

-----------------------------------------------------------------------------
(* Prisma schemas *)

\* a model whose relation field carries no @relation
FragPrismaPostPlain ==
    <<"model", "Post", "{", NL, WS, "author", "User?", NL, "}", NL>>

\* a field with @relation whose type is no model of the schema
FragPrismaOwner == <<WS, "owner", "Account", "@relation", NL>>

FragPrismaClose == <<"}", NL>>

FragPrismaComment == <<WS, "//", "author", "User", "@relation", NL>>

PrismaFrags ==
    {FragPrismaUser, FragPrismaPost, FragPrismaPostPlain, FragPrismaOwner,
     FragPrismaClose, FragPrismaComment}

PrismaContents == ContentsOf(PrismaFrags, MaxFrags)

NextPrisma == ParseSchema \/ PrismaScan \/ PrismaFinish

SpecPrisma ==
    InitWith(PrismaContents, {<<"schema", ".", "prisma">>})
        /\ [][NextPrisma]_vars

\* the fields <<table, column>> of tb that relate their model to a model of tb
RelationFields(tb) ==
    {f \in UNION {{<<k, c>> : c \in 1..Len(tb[k].columns)} : k \in 1..Len(tb)} :
        LET col == tb[f[1]].columns[f[2]]
        IN /\ \E m \in 1..Len(tb) : tb[m].id = CleanType(col.type)
           /\ IsForeignKeyHolder(col.details)}

RelationOfField(tb, f) ==
    LET col == tb[f[1]].columns[f[2]]
    IN [source |-> tb[f[1]].id, target |-> CleanType(col.type),
        column |-> Some(col.name)]

-----------------------------------------------------------------------------
(* Django models *)

\* a nested class without base classes and an assignment of its body
FragDjangoMeta ==
    <<WS, "class", "Meta", ":", NL,
      WS, WS, "title", "=", "CharField", "(", "max_length=100", ")", NL>>

\* module-level code
FragDjangoAfter == <<"legacy", "=", "User", "(", ")", NL>>

FragDjangoSelf ==
    <<WS, "author", "=", "models.ForeignKey", "(", SQ, "self", SQ, ",",
      "on_delete=models.CASCADE", ")", NL>>

FragDjangoOneToOne ==
    <<WS, "user", "=", "models.OneToOneField", "(", DQ, "Account", DQ, ",",
      "on_delete=models.CASCADE", ")", NL>>

FragDjangoManyToMany ==
    <<WS, "posts", "=", "ManyToManyField", "(", "Post", ")", NL>>

DjangoFrags ==
    {FragDjangoUser, FragDjangoPost, FragDjangoMeta, FragDjangoAfter,
     FragDjangoSelf, FragDjangoOneToOne, FragDjangoManyToMany}

DjangoContents == ContentsOf(DjangoFrags, MaxFrags)

NextDjango == ParseSchema \/ DjangoScan \/ DjangoFinish

SpecDjango ==
    InitWith(DjangoContents, {<<"models", ".", "py">>}) /\ [][NextDjango]_vars

\* the kinds of line the Django scanner tells apart
IsClassHeader(line) == DjangoClassMatch(Trim(line)) # NoMatch

IsFieldLine(line) ==
    ~IsClassHeader(line) /\ DjangoFieldMatch(Trim(line)) # NoMatch

\* the class headers among the first n lines
ClassHeaders(lines, n) == {k \in 1..n : IsClassHeader(lines[k])}

\* a step of the Django scanner over one line
DjangoScanStep == pc = "scan" /\ dialect = "django" /\ idx' = idx + 1

\* C27: the Django scanner keeps the class of the last header with a list of
\* base classes open up to the next such header: every field assignment read
\* after a header appends its column to the class of the last header, be it
\* under a nested class without base classes or after the class body, and
\* only a header moves the cursor.
C27_DjangoCursor ==
    [][DjangoScanStep =>
        LET line == units[idx + 1]
            owner == Cardinality(ClassHeaders(units, idx))
            f == DjangoFieldMatch(Trim(line))
        IN /\ currentTable' = Cardinality(ClassHeaders(units, idx + 1))
           /\ (IsFieldLine(line) /\ owner > 0) =>
                  /\ Len(tables') = Len(tables)
                  /\ \A k \in 1..Len(tables) :
                         IF k = owner
                         THEN tables'[k]
                                = [tables[k] EXCEPT !.columns =
                                      Append(@, [name |-> f[1], type |-> f[2],
                                                 details |-> Some(f[3])])]
                         ELSE tables'[k] = tables[k]
           /\ (IsFieldLine(line) /\ owner = 0) => tables' = tables]_vars

\* the assignment under class Meta: and the module-level assignment after it
\* both became columns of User
C27_Witness ==
    /\ pc = "scan"
    /\ dialect = "django"
    /\ Len(tables) = 1
    /\ tables[1].id = "User"
    /\ ColumnNames(tables[1]) = <<"name", "title", "legacy">>
    /\ currentTable = 1

-----------------------------------------------------------------------------
(* Reference fields of Django models *)

\* the field types that name one of the three kinds of reference
ReferenceTypes ==
    {"ForeignKey", "models.ForeignKey", "OneToOneField", "models.OneToOneField",
     "ManyToManyField", "models.ManyToManyField"}

\* the first constructor argument when it is an identifier, quoted or bare
FirstArgument(args) ==
    IF TokAt(args, 1) \in {SQ, DQ} /\ IsWord(TokAt(args, 2)) THEN Some(args[2])
    ELSE IF IsWord(TokAt(args, 1)) THEN Some(args[1])
    ELSE None

\* C28: when the Django scanner reads a field assignment of a class, the step
\* appends the relationship (class, first argument, field name) if the field
\* type is a ForeignKey, OneToOneField or ManyToManyField and the first
\* argument is an identifier other than self, parsed class or not, and appends
\* no relationship otherwise; the column is added in both cases.
C28_DjangoReferences ==
    [][DjangoScanStep =>
        LET line == units[idx + 1]
            owner == Cardinality(ClassHeaders(units, idx))
            f == DjangoFieldMatch(Trim(line))
            target == FirstArgument(f[3])
        IN IF /\ IsFieldLine(line)
              /\ owner > 0
              /\ f[2] \in ReferenceTypes
              /\ target # None
              /\ target # Some("self")
           THEN /\ relationships'
                     = Append(relationships,
                              [source |-> tables[owner].id, target |-> target[1],
                               column |-> Some(f[1])])
                /\ Len(tables'[owner].columns) = Len(tables[owner].columns) + 1
           ELSE /\ relationships' = relationships
                /\ (IsFieldLine(line) /\ owner > 0) =>
                       Len(tables'[owner].columns)
                           = Len(tables[owner].columns) + 1]_vars

\* the one-to-one field of User gave the edge to Account, which is no class of
\* the file, and the self reference before it gave a column and no edge
C28_Witness ==
    /\ pc = "scan"
    /\ dialect = "django"
    /\ Len(tables) = 1
    /\ tables[1].id = "User"
    /\ ColumnNames(tables[1]) = <<"name", "author", "user">>
    /\ relationships
           = <<[source |-> "User", target |-> "Account", column |-> Some("user")]>>

-----------------------------------------------------------------------------
(* The analysis of the schema *)

\* a step in which a call of analyzeSchema settles
SettleStep == Len(pending') = Len(pending) - 1

C30_AnalysisSettles ==
    (analysisStatus = "LOADING") ~> (analysisStatus \in {"SUCCESS", "ERROR"})

\* a file was uploaded while the call for the example schema was in flight,
\* and that call then settled with its report: the status is SUCCESS
C30_Witness ==
    /\ analysisStatus = "SUCCESS"
    /\ pending = <<>>
    /\ calls = 2
    /\ pc = "idle"
    /\ analysisReport = Some(ReportOf(ExampleSchema, WellFormed[2]))
    /\ schemaData[1].rawContent # ExampleSchema

-----------------------------------------------------------------------------
(* The defaults of the analysis report *)

\* a summary that is a string, a list that is an array
IsString(v) == v[1] = "string"

\* the report in which every field of the parsed response stands as it is when
\* it is well formed, and is the empty string or the empty list when not
DefaultedReport(schemaContent, parsed) ==
    [schema |-> schemaContent,
     summary |-> IF IsString(Field(parsed, 1))
                 THEN Field(parsed, 1)
                 ELSE Str(<<>>),
     potentialIssues |-> IF IsArray(Field(parsed, 2))
                         THEN Field(parsed, 2)
                         ELSE Arr(<<>>),
     suggestions |-> IF IsArray(Field(parsed, 3))
                     THEN Field(parsed, 3)
                     ELSE Arr(<<>>)]

\* C31: when the call that settles had a parseable response, analyzeSchema
\* does not throw (the App enters SUCCESS) and the report it returns has three
\* fields, each the field of the response when that is well formed and the
\* empty string or the empty list when it is missing or malformed.
C31_ResponseDefaults ==
    [][(SettleStep /\ response' # None /\ response'[1][1] = "json") =>
        /\ analysisStatus' = "SUCCESS"
        /\ analysisReport' # None
        /\ \E k \in 1..Len(pending) :
               analysisReport'
                   = Some(DefaultedReport(pending[k], response'[1][2]))]_vars

-----------------------------------------------------------------------------
(* The analysis and the schema loads *)

\* a step in which a call of analyzeSchema is issued
TriggerStep == Len(pending') = Len(pending) + 1

\* C32: while analysisStatus is LOADING the sidebar renders none of Start
\* Analysis, Retry and Re-analyze, so no call is ever issued from a state
\* whose status is LOADING; every call is issued from IDLE, ERROR or SUCCESS
\* and sets LOADING.
C32_NoTriggerWhileLoading ==
    [][TriggerStep =>
        /\ analysisStatus \in {"IDLE", "ERROR", "SUCCESS"}
        /\ analysisStatus' = "LOADING"
        /\ Len(pending') >= 1]_vars

\* a call issued by Retry or Re-analyze is in flight: the status is LOADING
\* and an earlier call has settled
C32_Witness ==
    /\ analysisStatus = "LOADING"
    /\ Len(pending) = 1
    /\ response # None
    /\ pc = "idle"

\* C34: the report held in App state is, whenever non-null, the report
\* computed from the rawContent of the schema now loaded, and SUCCESS is
\* entered from LOADING only; so the late settlement of a call issued before
\* a schema load does not install its result.
C34_NoStaleReport ==
    [][/\ analysisReport' # None =>
              /\ schemaData' # None
              /\ analysisReport'[1].schema = schemaData'[1].rawContent
       /\ (analysisStatus' = "SUCCESS" /\ analysisStatus # "SUCCESS") =>
              analysisStatus = "LOADING"]_vars

\* C35: at most one call of analyzeSchema is in flight at any time.
C35_OneRequestInFlight == Len(pending) <= 1

\* C38: analysisStatus = SUCCESS implies that analysisReport is non-null.
C38_SuccessHasReport == analysisStatus = "SUCCESS" => analysisReport # None

\* SUCCESS was entered by a settlement while another call was in flight,
\* after a schema load
C38_Witness ==
    /\ analysisStatus = "SUCCESS"
    /\ analysisReport # None
    /\ Len(pending) = 1
    /\ calls = 2

-----------------------------------------------------------------------------
(* The focus and the selection *)

\* C37: in every reachable App state isFocused = true implies that
\* selectedTable is non-null: the focus is toggled only while a table is
\* selected and is cleared whenever the selection is cleared.
C37_FocusNeedsSelection == isFocused => selectedTable # None

\* the focus is on again after an upload had cleared selection and focus
C37_Witness ==
    /\ isFocused
    /\ selectedTable # None
    /\ calls = 2
    /\ pc = "idle"

-----------------------------------------------------------------------------
(* The reset at a schema load *)

\* the App state a load resets, and the graph controls it leaves alone
loadVars ==
    <<schemaData, selectedTable, analysisStatus, analysisReport, isFocused,
      layout, searchTerm>>

\* the call of parseSchema made by processFile or loadSchemaFromStorage
\* returns to its handler, which runs to its end
LoadStep == pc = "done" /\ schemaData # None /\ pc' = "idle"

\* reader.onload runs on an empty content
EmptyFileStep == reading # None /\ reading[1] = <<>> /\ reading' = None

\* a step of a load before its call of parseSchema has returned, a raising
\* call included
ParsingStep == pc' \in {"start", "scan", "done", "raised"} /\ schemaData # None

\* C36: a load (a non-empty uploaded file, or the saved content) replaces
\* schemaData by the schema parsed from the content loaded and, in the same
\* step, sets selectedTable to null, analysisStatus to IDLE, analysisReport to
\* null and isFocused to false, with layout and searchTerm unchanged; no
\* earlier step of the load changes any of these, and neither does a load of
\* an empty file or a call of parseSchema that raises.
C36_LoadResets ==
    [][/\ LoadStep =>
              /\ schemaData' = result
              /\ schemaData'[1].rawContent = content
              /\ selectedTable' = None
              /\ analysisStatus' = "IDLE"
              /\ analysisReport' = None
              /\ isFocused' = FALSE
              /\ layout' = layout
              /\ searchTerm' = searchTerm
       /\ EmptyFileStep => UNCHANGED loadVars /\ pc' = pc
       /\ ParsingStep => UNCHANGED loadVars]_vars

\* the saved schema has been loaded from storage after an analysis, with the
\* TREE layout and a search term set
C36_Witness ==
    /\ pc = "idle"
    /\ calls = 2
    /\ filename = <<>>
    /\ schemaData # None
    /\ schemaData[1].rawContent = content
    /\ selectedTable = None
    /\ analysisStatus = "IDLE"
    /\ analysisReport = None
    /\ response # None
    /\ layout = "TREE"
    /\ searchTerm = "user"

-----------------------------------------------------------------------------
(* The precedence of the content signals *)

\* texts that carry the signals of up to two dialects
SignalFrags ==
    {FragPrismaUser, FragDjangoUser, FragRailsUsers, FragSqlUsers,
     FragSqlComment}

MaxSignals == 2

SignalContents == ContentsOf(SignalFrags, MaxSignals)

\* filenames without a recognized extension, the empty filename included
SignalFilenames == {<<>>, <<"x", ".", "txt">>, <<"schema">>}

SpecSignals == InitWith(SignalContents, SignalFilenames) /\ [][Next]_vars

\* the content signals of the four dialects
PrismaSignal(c) == IncludesSeq(c, <<"generator", "client", "{">>)

DjangoSignal(c) == Includes(c, "models.Model") \/ Includes(c, "django.db")

RailsSignal(c) == Includes(c, "ActiveRecord::Schema") \/ Includes(c, "create_table")

SqlSignal(c) == HasCreateTableAnyCase(c)

\* C39: when the filename has no recognized extension, the scanner is the
\* first of Prisma, Django, Rails, SQL whose signal is in the content; so a
\* content with create_table anywhere in it and no Prisma or Django signal is
\* scanned as Rails, whether or not it holds CREATE TABLE.
C39_SignalPrecedence ==
    (pc # "start" /\ Ext(filename) \notin CanonicalExts) =>
        /\ PrismaSignal(content) => dialect = "prisma"
        /\ (~PrismaSignal(content) /\ DjangoSignal(content))
               => dialect = "django"
        /\ (/\ ~PrismaSignal(content)
            /\ ~DjangoSignal(content)
            /\ RailsSignal(content))
               => dialect = "rails"
        /\ (/\ ~PrismaSignal(content)
            /\ ~DjangoSignal(content)
            /\ ~RailsSignal(content)
            /\ SqlSignal(content))
               => dialect = "sql"

\* an SQL dump whose comment holds create_table was scanned as Rails and gave
\* no table
C39_Witness ==
    /\ Returned
    /\ Ext(filename) \notin CanonicalExts
    /\ content = FragSqlComment \o FragSqlUsers
    /\ SqlSignal(content)
    /\ dialect = "rails"
    /\ result[1].tables = <<>>

-----------------------------------------------------------------------------
(* The graph: nodes, links and tree levels *)

\* the step in which the graph is drawn from the data it receives
RenderStep == graphState = "unmounted" /\ graphState' = "drawn"

\* C33: when the graph is drawn, every table of the data it receives becomes
\* exactly one node, in order; every link has a source and a target that are
\* ids of tables of that data; the links are the relationships that are not
\* dangling, none of them dropped; and the SchemaData is left as it was.
C33_LinksBetweenNodes ==
    [][RenderStep =>
        LET d == ActiveData(schemaData, isFocused, selectedTable)[1]
            kept == {j \in 1..Len(d.relationships) :
                        ~Dangling(d, d.relationships[j])}
        IN /\ schemaData' = schemaData
           /\ Len(nodesRef') = Len(d.tables)
           /\ \A k \in 1..Len(d.tables) : nodesRef'[k].data = d.tables[k]
           /\ \A j \in 1..Len(linksRef') :
                  /\ linksRef'[j].source \in TableIds(d)
                  /\ linksRef'[j].target \in TableIds(d)
                  /\ \E r \in kept :
                         /\ d.relationships[r].source = linksRef'[j].source
                         /\ d.relationships[r].target = linksRef'[j].target
           /\ Len(linksRef') = Cardinality(kept)]_vars

\* a graph was drawn that dropped a dangling relationship and kept another
C33_Witness ==
    /\ graphState = "drawn"
    /\ Len(nodesRef) = 3
    /\ Len(linksRef) = 2
    /\ Len(schemaData[1].relationships) = 3
    /\ \E j \in 1..3 : Dangling(schemaData[1], schemaData[1].relationships[j])

\* the level the tree layout holds for an id
LevelOf(id) == nodesRef[IdToNode(nodesRef, id)].level

\* the links allow a ranking of the ids that falls along every link
AcyclicLinks ==
    LET ids == {nodesRef[k].id : k \in 1..Len(nodesRef)}
    IN \E rank \in [ids -> 0..Len(nodesRef)] :
           \A j \in 1..Len(linksRef) :
               rank[linksRef[j].source] > rank[linksRef[j].target]

\* C40: the level loop of the TREE layout makes at most |nodes| passes over
\* the links for every link graph, cyclic graphs and self-links included, and
\* is over once it has made that many; when the link graph is acyclic, on
\* completion every link has a source whose level is strictly greater than
\* its target's, and every node without an outgoing link has level 0.
C40_TreeLevels ==
    /\ passes <= Len(nodesRef)
    /\ pc = "levels" => passes < Len(nodesRef)
    /\ (graphState = "laid" /\ AcyclicLinks) =>
           /\ \A j \in 1..Len(linksRef) :
                  LevelOf(linksRef[j].source) > LevelOf(linksRef[j].target)
           /\ \A k \in 1..Len(nodesRef) :
                  (\A j \in 1..Len(linksRef) :
                       linksRef[j].source # nodesRef[k].id)
                      => nodesRef[k].level = 0

\* a chain of three tables whose links stand in the worst order was laid out
\* in as many passes as there are nodes
C40_Witness ==
    /\ graphState = "laid"
    /\ AcyclicLinks
    /\ Len(nodesRef) = 3
    /\ passes = 3
    /\ \E k \in 1..3 : nodesRef[k].level = 2

====
